---- MODULE Spec2Model ----
(***************************************************************************)
(* Streaming provider layer of vocode-core: the Sarvam transcriber with    *)
(* its reconnect loop, the transcriber factory with its health probe, the  *)
(* Cartesia and Sarvam synthesizers with their frame buffering and         *)
(* truncation functions.  Each component is a state machine of its own     *)
(* with its own specification; the variables of the other components stay  *)
(* parked at their constructed values.                                     *)
(***************************************************************************)
EXTENDS Integers, Sequences, FiniteSets, TLC

(***************************************************************************)
(* Bounds of the model (not program constants).                            *)
(***************************************************************************)
\* audio chunks the telephony leg feeds into the transcriber's input queue
MaxFeed == 2
\* Transcriptions the provider's messages produce over one stream lifetime
MaxMsgs == 2
\* frames written on one connection that the model keeps a record of
MaxWire == 2
\* create_transcriber calls made on one factory
MaxCalls == 2
\* create_speech_uncached calls made on one CartesiaSynthesizer
MaxSynth == 3
\* words in the text of one utterance context
MaxWords == 3
\* resolution of elapsed time: ticks in one second
TicksPerSecond == 2
\* the largest elapsed time truncate_at is asked about, in ticks
MaxElapsed == 8
\* truncate_at evaluations made on one state of the synthesizers
MaxCutoffs == 2
\* audio bytes received during one synthesis
MaxBytes == 5
\* the largest chunk_size a synthesis is asked for
MaxChunkSize == 3
\* "timestamps" events received during one synthesis
MaxStamps == 1
\* "error" events of one connection that the model keeps a record of
MaxErrors == 1

(***************************************************************************)
(* Program constants.                                                      *)
(***************************************************************************)
\* sarvam_transcriber.py:47
NUM_RESTARTS == 3
\* sarvam_transcriber.py:263  close code of the rate-limit close
RateLimitCode == 1003
\* default_factory.py:130  silence frames the health probe sends
ProbeBurst == 5
\* sarvam_transcriber.py:173  bytes of the heartbeat's silence frame
HeartbeatBytes == 640
\* cartesia_synthesizer.py:219  words_per_minute=150
WordsPerMinute == 150
\* cartesia_synthesizer.py:229  the timestamp is used if it ends less than
\* 2 seconds after the elapsed time
NearSeconds == 2
\* sarvam_synthesizer.py:179  min(chunk_size, 4096)
StreamChunkCap == 4096
\* the 20 chunks of 3200 bytes pushed for 4096-byte frames
\* (test_sarvam.py:38, test_sarvam.py:34, sarvam_synthesizer.py:55)
ScenarioChunks == 20
ScenarioChunkBytes == 3200
ScenarioFrameSize == 4096

VARIABLES
    \* ---- SarvamTranscriber -------------------------------------------
    rl_pc,          \* position of _run_loop
    restarts,       \* _run_loop's local counter
    attempts,       \* calls of _process_audio made so far (history)
    ended,          \* self._ended
    is_ready,       \* self.is_ready
    ws_connection,  \* self.ws_connection: "none" or the state of the wire
    ws_close,       \* how the current connection was closed (NoClose if open)
    send_pc,        \* position of _send_audio_loop
    recv_pc,        \* position of _receive_transcription_loop
    orphans,        \* close events still to be seen by receive duties that
                    \* outlived their attempt (gather does not cancel them)
    input_queue,    \* self._input_queue
    fed,            \* chunks fed so far (bounds the environment)
    ratecv_state,   \* self._ratecv_state: 0 is None, n the state after n calls
    wire,           \* frames written on the current connection
    output_queue,   \* Transcriptions produced, in order
    rate_limited,   \* the receive duty has observed a rate-limit close (history)
    recv_log        \* the error events the receive duty has logged on the
                    \* current connection (history, kept only where the
                    \* specification switches it on)

tvars == <<rl_pc, restarts, attempts, ended, is_ready, ws_connection, ws_close,
           send_pc, recv_pc, orphans, input_queue, fed, ratecv_state, wire,
           output_queue, rate_limited, recv_log>>

VARIABLES
    \* ---- DefaultTranscriberFactory -----------------------------------
    f_pc,           \* position of create_transcriber / _check_sarvam_health
    f_loop,         \* the call is made from inside a running event loop
    f_key,          \* an API key is available (config or environment)
    f_age,          \* the age, at the time of the call, of the verdict the
                    \* call before it obtained (history)
    f_sent,         \* silence frames the probe has sent so far
    f_calls         \* the finished create_transcriber calls, in order

fvars == <<f_pc, f_loop, f_key, f_age, f_sent, f_calls>>

VARIABLES
    \* ---- CartesiaSynthesizer -----------------------------------------
    c_ws,           \* self.ws is connected
    c_ctx,          \* self.ctx: 0 is None, else the number of the context
    c_ctxs,         \* the contexts opened so far: what was written on each
                    \* and its _completed flag
    ctx_message,    \* self.ctx_message.text
    ctx_timestamps, \* self.ctx_timestamps
    c_timer,        \* self.no_more_inputs_task
    c_call,         \* the create_speech_uncached call in progress, if any
    c_results,      \* the calls that have returned, in order (history)
    c_old,          \* the states of the timer tasks that
                    \* self.no_more_inputs_task no longer refers to
    c_down,         \* what tear_down has done, and whether a "no more
                    \* inputs" was written after it (history)
    c_gens          \* the frame generator of each returned SynthesisResult:
                    \* how far it has been consumed

cvars == <<c_ws, c_ctx, c_ctxs, ctx_message, ctx_timestamps, c_timer, c_call,
           c_results, c_old, c_down, c_gens>>

VARIABLES
    \* ---- truncate_at (SynthesisResult.get_message_up_to) --------------
    sarvam_text,    \* message.text the Sarvam result's lambda has captured
    cutoffs         \* the truncate_at evaluations made so far (history)

uvars == <<sarvam_text, cutoffs>>

VARIABLES
    \* ---- chunk_generator of one synthesis ----------------------------
    gen_synth,      \* the synthesizer whose generator runs
    gen_pc,         \* position of the generator
    encoding,       \* self.output_format["encoding"] / audio_encoding
    chunk_size,     \* the chunk_size the synthesis was asked for
    received,       \* the audio bytes handed to the buffering so far
    buffer,         \* Cartesia: the local bytearray `buffer`
    loop_i,         \* Sarvam: the bytes of audio_bytes sliced so far (i)
    frames,         \* the ChunkResults yielded so far, in order
    gen_silence,    \* message.text is a silence token
    gen_sent,       \* what this call has sent to the provider (history)
    gen_failure     \* how the synthesis has failed, "none" if it has not
                    \* (history)

\* what most steps of a generator leave alone
gen_hist == <<gen_silence, gen_sent, gen_failure>>

gvars == <<gen_synth, gen_pc, encoding, chunk_size, received, buffer, loop_i,
           frames, gen_silence, gen_sent, gen_failure>>

VARIABLES
    \* ---- _sarvam_to_deepgram_fallback --------------------------------
    sarvam_config,  \* the SarvamTranscriberConfig of the last call
    deepgram_config \* the DeepgramTranscriberConfig built for it

dvars == <<sarvam_config, deepgram_config>>

vars == <<tvars, fvars, cvars, uvars, gvars, dvars>>

\* the variables of the other components, which an action leaves alone
notT == <<fvars, cvars, uvars, gvars, dvars>>
notF == <<tvars, cvars, uvars, gvars, dvars>>
notC == <<tvars, fvars, uvars, gvars, dvars>>
notU == <<tvars, fvars, cvars, gvars, dvars>>
notG == <<tvars, fvars, uvars, dvars>>
notD == <<tvars, fvars, cvars, uvars, gvars>>

(***************************************************************************)
(* SarvamTranscriber                                                       *)
(***************************************************************************)
NoClose == [code |-> 0, phrase |-> FALSE, local |-> FALSE]

\* the closes a provider can make: a close code and whether the reason
\* carries the words "Rate limit exceeded"
ProviderCloses ==
    [code : {1000}, phrase : {FALSE}, local : {FALSE}]
        \cup [code : {RateLimitCode, 1011}, phrase : BOOLEAN, local : {FALSE}]

\* terminate() and the exit of `async with` close the connection locally
LocalClose == [code |-> 1000, phrase |-> FALSE, local |-> TRUE]

\* websockets raises ConnectionClosedOK for a normal close, else ...Error
IsClosedOK(c) == c.code = 1000

\* line 263: e.code == 1003 and "Rate limit exceeded" in str(e)
IsRateLimit(c) == ~IsClosedOK(c) /\ c.code = RateLimitCode /\ c.phrase

\* chunks the telephony leg can put on the input queue: a well-formed frame,
\* an odd-length frame (audioop.ratecv rejects it), the None sentinel
ChunkKinds == {"good", "odd", "none"}

\* inbound messages: the type field and whether a text is present;
\* "notjson" is a payload json.loads rejects
MsgTypes == {"connected", "partial", "partial_transcript", "transcript",
             "final_transcript", "error", "unknown", "notjson"}
\* the text of a message: none (absent or empty), or a text, given as the
\* pair of the connection it is sent on and its number among the texts
\* sent; SomeText is a text whose identity does not matter
NoText == <<>>
SomeText == <<0, 0>>
Messages == [type : MsgTypes, text : {NoText, SomeText}]

\* the log of error events: not kept, or kept and empty
LogOff == [on |-> FALSE, errors |-> 0]
LogOn == [on |-> TRUE, errors |-> 0]

\* lines 248-251: logger.error for an "error" event
Logged(log, m) ==
    IF log.on /\ m.type = "error" /\ log.errors < MaxErrors
    THEN [log EXCEPT !.errors = @ + 1]
    ELSE log

TInitLogging(log) ==
    /\ rl_pc = "idle"
    /\ restarts = 0
    /\ attempts = 0
    /\ ended = FALSE
    /\ is_ready = FALSE
    /\ ws_connection = "none"
    /\ ws_close = NoClose
    /\ send_pc = "off"
    /\ recv_pc = "off"
    /\ orphans = {}
    /\ input_queue = <<>>
    /\ fed = 0
    /\ ratecv_state = 0
    /\ wire = <<>>
    /\ output_queue = <<>>
    /\ rate_limited = FALSE
    /\ recv_log = log

TInit == TInitLogging(LogOff)

\* the while condition of _run_loop (line 99)
LoopConditionIgnoringBound(e, r) == ~e
LoopCondition(e, r) == ~e /\ r < NUM_RESTARTS

\* lines 110-112: after the loop the failure of the stream is reported
\* (logger.error and the FATAL line) if the counter has reached the bound
ReportsFailure(r) == r >= NUM_RESTARTS

\* line 102: the counter after an attempt that ended without an exception
RestartsAfterResetOnSuccess(r) == 0
RestartsAfterClose(r) == r + 1

\* line 105: the counter after an attempt that raised
RestartsAfterErrorUncounted(r) == r
RestartsAfterError(r) == r + 1

\* lines 263-265: what the receive duty makes of _ended on a close error
EndedIgnoringRateLimit(e, c) == e
EndedAfterCloseError(e, c) == IF IsRateLimit(c) THEN TRUE ELSE e

\* the record of the frames written on the connection
Written(w, frame) == IF Len(w) < MaxWire THEN Append(w, frame) ELSE w

\* line 164: a resampled chunk as a frame on the connection (its bytes are
\* not modelled)
AudioFrame == [kind |-> "audio"]

\* line 173: b"\0" * 640, as runs of equal bytes
one_silent_byte == <<[byte |-> 0, count |-> 1]>>
silent_audio == <<[byte |-> 0, count |-> HeartbeatBytes]>>

\* line 174: the silence written as a frame on the connection
HeartbeatFrame == [kind |-> "silence", bytes |-> silent_audio]

\* _run_loop is started (line 96)
RunLoopStart ==
    /\ rl_pc = "idle"
    /\ rl_pc' = "while"
    /\ restarts' = 0
    /\ UNCHANGED notT
    /\ UNCHANGED <<attempts, ended, is_ready, ws_connection, ws_close, send_pc,
                   recv_pc, orphans, input_queue, fed, ratecv_state, wire, output_queue, rate_limited, recv_log>>

\* line 99 holds: _process_audio is called and starts connecting (line 123)
RunLoopEnter ==
    /\ rl_pc = "while"
    /\ LoopCondition(ended, restarts)
    /\ rl_pc' = "connect"
    /\ attempts' = attempts + 1
    /\ UNCHANGED notT
    /\ UNCHANGED <<restarts, ended, is_ready, ws_connection, ws_close, send_pc,
                   recv_pc, orphans, input_queue, fed, ratecv_state, wire, output_queue, rate_limited, recv_log>>

\* line 99 fails: the loop is left (lines 110-112)
RunLoopExit ==
    /\ rl_pc = "while"
    /\ ~LoopCondition(ended, restarts)
    /\ rl_pc' = "end"
    /\ UNCHANGED notT
    /\ UNCHANGED <<restarts, attempts, ended, is_ready, ws_connection, ws_close,
                   send_pc, recv_pc, orphans, input_queue, fed, ratecv_state,
                   wire, output_queue, rate_limited, recv_log>>

\* websockets.connect succeeds (lines 123-133): both duties are started
ConnectOk ==
    /\ rl_pc = "connect"
    /\ rl_pc' = "gather"
    /\ ws_connection' = "open"
    /\ ws_close' = NoClose
    /\ is_ready' = TRUE
    /\ send_pc' = "top"
    /\ recv_pc' = "top"
    /\ wire' = <<>>
    /\ recv_log' = [recv_log EXCEPT !.errors = 0]
    /\ UNCHANGED notT
    /\ UNCHANGED <<restarts, attempts, ended, orphans, input_queue, fed,
                   ratecv_state, output_queue, rate_limited>>

\* websockets.connect raises: caught at line 104, then the backoff (line 108)
ConnectFail ==
    /\ rl_pc = "connect"
    /\ rl_pc' = "sleep"
    /\ restarts' = RestartsAfterError(restarts)
    /\ UNCHANGED notT
    /\ UNCHANGED <<attempts, ended, is_ready, ws_connection, ws_close, send_pc,
                   recv_pc, orphans, input_queue, fed, ratecv_state, wire, output_queue, rate_limited, recv_log>>

\* asyncio.sleep(0.5) is over
BackoffDone ==
    /\ rl_pc = "sleep"
    /\ rl_pc' = "while"
    /\ UNCHANGED notT
    /\ UNCHANGED <<restarts, attempts, ended, is_ready, ws_connection, ws_close,
                   send_pc, recv_pc, orphans, input_queue, fed, ratecv_state,
                   wire, output_queue, rate_limited, recv_log>>

\* ---- the send duty (lines 135-189) ----
\* line 138: while not self._ended
SendTop ==
    /\ send_pc = "top"
    /\ send_pc' = IF ended THEN "done" ELSE "get"
    /\ UNCHANGED notT
    /\ UNCHANGED <<rl_pc, restarts, attempts, ended, is_ready, ws_connection,
                   ws_close, recv_pc, orphans, input_queue, fed, ratecv_state,
                   wire, output_queue, rate_limited, recv_log>>

\* lines 154-161: audioop.ratecv is passed self._ratecv_state and returns
\* the state to store; state n is the one reached after n frames resampled
\* in a row from None (0)
ResampledFromNone(state) == 1
Resampled(state) == state + 1

\* lines 141-169: a chunk is pulled, converted and written
SendChunk ==
    /\ send_pc = "get"
    /\ input_queue # <<>>
    /\ LET chunk == Head(input_queue) IN
       /\ input_queue' = Tail(input_queue)
       /\ CASE chunk = "none" ->
                 \* line 146: the sentinel ends the duty
                 /\ send_pc' = "done"
                 /\ UNCHANGED <<ratecv_state, wire>>
            [] chunk = "odd" ->
                 \* audioop.ratecv raises, caught at line 186
                 /\ send_pc' = "done"
                 /\ UNCHANGED <<ratecv_state, wire>>
            [] OTHER ->
                 /\ ratecv_state' = Resampled(ratecv_state)
                 /\ IF ws_connection = "open"
                    THEN /\ wire' = Written(wire, AudioFrame)
                         /\ send_pc' = "top"
                    ELSE \* ws.send raises ConnectionClosed, lines 179-185
                         /\ send_pc' = "done"
                         /\ UNCHANGED wire
    /\ UNCHANGED notT
    /\ UNCHANGED <<rl_pc, restarts, attempts, ended, is_ready, ws_connection,
                   ws_close, recv_pc, orphans, fed, output_queue,
                   rate_limited, recv_log>>

\* lines 171-175: no chunk within 5 s, a silence frame is written; a failing
\* write is raised inside the except clause and leaves the duty
SendHeartbeat ==
    /\ send_pc = "get"
    /\ input_queue = <<>>
    /\ IF ws_connection = "open"
       THEN /\ wire' = Written(wire, HeartbeatFrame)
            /\ send_pc' = "top"
       ELSE /\ send_pc' = "raised"
            /\ UNCHANGED wire
    /\ UNCHANGED notT
    /\ UNCHANGED <<rl_pc, restarts, attempts, ended, is_ready, ws_connection,
                   ws_close, recv_pc, orphans, input_queue, fed, ratecv_state,
                   output_queue, rate_limited, recv_log>>

\* ---- the receive duty (lines 191-272) ----
\* line 194: while not self._ended
RecvTop ==
    /\ recv_pc = "top"
    /\ recv_pc' = IF ended THEN "done" ELSE "recv"
    /\ UNCHANGED notT
    /\ UNCHANGED <<rl_pc, restarts, attempts, ended, is_ready, ws_connection,
                   ws_close, send_pc, orphans, input_queue, fed, ratecv_state,
                   wire, output_queue, rate_limited, recv_log>>

\* lines 209-253: the Transcriptions a message produces
ProducedWithoutText(m) ==
    CASE m.type \in {"partial", "partial_transcript"} ->
             <<[message |-> m.text, is_final |-> FALSE]>>
      [] m.type \in {"transcript", "final_transcript"} ->
             <<[message |-> m.text, is_final |-> TRUE]>>
      [] OTHER -> <<>>

Produced(m) ==
    CASE m.type \in {"partial", "partial_transcript"} /\ m.text # NoText ->
             <<[message |-> m.text, is_final |-> FALSE]>>
      [] m.type \in {"transcript", "final_transcript"} /\ m.text # NoText ->
             <<[message |-> m.text, is_final |-> TRUE]>>
      [] OTHER -> <<>>

\* lines 228, 246: produce_nonblocking is called with the Transcription of
\* the message, which goes to the tail of the output queue
DeliveredFirst(q, m) == Produced(m) \o q
Delivered(q, m) == q \o Produced(m)

\* where the receive duty goes after a message: json.loads raises for a
\* payload that is not JSON (line 204), which is caught at line 269 and
\* leaves the loop; every other message takes the duty back to line 194
AfterMessageErrorEnds(m) ==
    IF m.type \in {"notjson", "error"} THEN "done" ELSE "top"
AfterMessage(m) == IF m.type = "notjson" THEN "done" ELSE "top"

\* lines 196-253: a message arrives and is classified
RecvMessage(m) ==
    /\ recv_pc = "recv"
    /\ ws_connection = "open"
    /\ Len(output_queue) + Len(Produced(m)) <= MaxMsgs
    /\ recv_pc' = AfterMessage(m)
    /\ IF m.type = "notjson"
       THEN UNCHANGED output_queue
       ELSE output_queue' = Delivered(output_queue, m)
    /\ recv_log' = Logged(recv_log, m)
    /\ UNCHANGED notT
    /\ UNCHANGED <<rl_pc, restarts, attempts, ended, is_ready, ws_connection,
                   ws_close, send_pc, orphans, input_queue, fed, ratecv_state,
                   wire, rate_limited>>

\* lines 258-268: ws.recv raises because the connection is closed
RecvClosed ==
    /\ recv_pc = "recv"
    /\ ws_connection = "closed"
    /\ recv_pc' = "done"
    /\ IF IsClosedOK(ws_close)
       THEN UNCHANGED <<ended, rate_limited, recv_log>>
       ELSE /\ ended' = EndedAfterCloseError(ended, ws_close)
            /\ rate_limited' = (rate_limited \/ IsRateLimit(ws_close))
    /\ UNCHANGED notT
    /\ UNCHANGED <<rl_pc, restarts, attempts, is_ready, ws_connection, ws_close,
                   send_pc, orphans, input_queue, fed, ratecv_state, wire, output_queue,
                   recv_log>>

\* ---- the end of an attempt (lines 123-133, 100-108) ----
\* both duties returned: gather returns, `async with` closes the connection
GatherReturn ==
    /\ rl_pc = "gather"
    /\ send_pc = "done"
    /\ recv_pc = "done"
    /\ rl_pc' = "while"
    /\ restarts' = RestartsAfterClose(restarts)
    /\ ws_connection' = "closed"
    /\ ws_close' = LocalClose
    /\ send_pc' = "off"
    /\ recv_pc' = "off"
    /\ UNCHANGED notT
    /\ UNCHANGED <<attempts, ended, is_ready, orphans, input_queue, fed,
                   ratecv_state, wire, output_queue, rate_limited, recv_log>>

\* the send duty raised: gather raises at once and does not cancel the
\* receive duty, which goes on with the connection that is now closed
GatherRaise ==
    /\ rl_pc = "gather"
    /\ send_pc = "raised"
    /\ rl_pc' = "sleep"
    /\ restarts' = RestartsAfterError(restarts)
    /\ ws_connection' = "closed"
    /\ ws_close' = LocalClose
    /\ orphans' = IF recv_pc \in {"top", "recv"} /\ IsRateLimit(ws_close)
                  THEN orphans \cup {ws_close}
                  ELSE orphans
    /\ send_pc' = "off"
    /\ recv_pc' = "off"
    /\ UNCHANGED notT
    /\ UNCHANGED <<attempts, ended, is_ready, input_queue, fed, ratecv_state,
                   wire, output_queue, rate_limited, recv_log>>

\* a receive duty left behind by GatherRaise sees the close error
\* (lines 261-268); only a rate-limit close has an effect, so only those
\* are kept in orphans
OrphanRecvClosed(c) ==
    /\ c \in orphans
    /\ orphans' = orphans \ {c}
    /\ ended' = EndedAfterCloseError(ended, c)
    /\ rate_limited' = (rate_limited \/ IsRateLimit(c))
    /\ UNCHANGED notT
    /\ UNCHANGED <<rl_pc, restarts, attempts, is_ready, ws_connection, ws_close,
                   send_pc, recv_pc, input_queue, fed, ratecv_state, wire, output_queue,
                   recv_log>>

\* a receive duty left behind at the top of its loop finds _ended set and
\* returns without reading (line 194)
OrphanRecvEnded(c) ==
    /\ c \in orphans
    /\ ended
    /\ orphans' = orphans \ {c}
    /\ UNCHANGED notT
    /\ UNCHANGED <<rl_pc, restarts, attempts, ended, is_ready, ws_connection,
                   ws_close, send_pc, recv_pc, input_queue, fed, ratecv_state,
                   wire, output_queue, rate_limited, recv_log>>

\* ---- the environment ----
\* the provider closes the connection
ProviderClose(c) ==
    /\ ws_connection = "open"
    /\ ws_connection' = "closed"
    /\ ws_close' = c
    /\ UNCHANGED notT
    /\ UNCHANGED <<rl_pc, restarts, attempts, ended, is_ready, send_pc, recv_pc,
                   orphans, input_queue, fed, ratecv_state, wire, output_queue, rate_limited, recv_log>>

\* the telephony leg puts a chunk on the input queue
Feed(chunk) ==
    /\ fed < MaxFeed
    /\ fed' = fed + 1
    /\ input_queue' = Append(input_queue, chunk)
    /\ UNCHANGED notT
    /\ UNCHANGED <<rl_pc, restarts, attempts, ended, is_ready, ws_connection,
                   ws_close, send_pc, recv_pc, orphans, ratecv_state, wire, output_queue, rate_limited, recv_log>>

\* lines 276-282: what terminate() makes of the fields it touches, given as
\* a record s; closing a connection that is already closed changes nothing
TerminateStateKeepsOpen(s) ==
    [ended         |-> TRUE,
     is_ready      |-> FALSE,
     ws_connection |-> s.ws_connection,
     ws_close      |-> s.ws_close]
TerminateState(s) ==
    [ended         |-> TRUE,
     is_ready      |-> FALSE,
     ws_connection |-> IF s.ws_connection = "open" THEN "closed"
                       ELSE s.ws_connection,
     ws_close      |-> IF s.ws_connection = "open" THEN LocalClose
                       ELSE s.ws_close]

\* the fields terminate() touches, as they are now
TerminateFields ==
    [ended |-> ended, is_ready |-> is_ready, ws_connection |-> ws_connection,
     ws_close |-> ws_close]

\* terminate() (lines 274-283)
Terminate ==
    /\ ended' = TerminateState(TerminateFields).ended
    /\ is_ready' = TerminateState(TerminateFields).is_ready
    /\ ws_connection' = TerminateState(TerminateFields).ws_connection
    /\ ws_close' = TerminateState(TerminateFields).ws_close
    /\ UNCHANGED notT
    /\ UNCHANGED <<rl_pc, restarts, attempts, send_pc, recv_pc, orphans,
                   input_queue, fed, ratecv_state, wire, output_queue,
                   rate_limited, recv_log>>

TNext ==
    \/ RunLoopStart
    \/ RunLoopEnter
    \/ RunLoopExit
    \/ ConnectOk
    \/ ConnectFail
    \/ BackoffDone
    \/ SendTop
    \/ SendChunk
    \/ SendHeartbeat
    \/ RecvTop
    \/ \E m \in Messages : RecvMessage(m)
    \/ RecvClosed
    \/ GatherReturn
    \/ GatherRaise
    \/ \E c \in ProviderCloses : OrphanRecvClosed(c)
    \/ \E c \in ProviderCloses : OrphanRecvEnded(c)
    \/ \E c \in ProviderCloses : ProviderClose(c)
    \/ \E chunk \in ChunkKinds : Feed(chunk)
    \/ Terminate

(***************************************************************************)
(* DefaultTranscriberFactory: create_transcriber for a Sarvam config and   *)
(* the health probe _check_sarvam_health                                   *)
(***************************************************************************)
FInit ==
    /\ f_pc = "idle"
    /\ f_loop = FALSE
    /\ f_key = TRUE
    /\ f_age = "none"
    /\ f_sent = 0
    /\ f_calls = <<>>

\* what the probe can observe before it returns
ProbeOutcomes == {"connect_failed", "send_failed", "error_event",
                  "other_event", "bad_message", "recv_closed", "timeout"}

\* first messages the provider can send to the probe: an event of type
\* "error", an event of another type, a payload that is not a JSON object
ProbeMessages == {"error_event", "other_event", "bad_message"}

\* lines 112-147: the value _check_sarvam_health returns for what it
\* observed ("True" or "False"; "raised" would be an exception leaving it);
\* every exception is caught at line 145
VerdictTimeoutUnhealthy(outcome) ==
    IF outcome = "other_event" THEN "True" ELSE "False"
ProbeVerdict(outcome) ==
    CASE outcome = "error_event" -> "False"     \* line 140
      [] outcome = "other_event" -> "True"      \* line 141
      [] outcome = "timeout" -> "True"          \* line 144
      [] OTHER -> "False"                       \* line 147

\* lines 81-90: the local `healthy`; verdict is "none" when the probe could
\* not be run because an event loop is already running (both
\* run_until_complete and asyncio.run raise RuntimeError)
HealthyStickyUnhealthy(verdict, calls) ==
    /\ verdict = "True"
    /\ \A i \in 1..Len(calls) : calls[i].healthy
HealthyForCall(verdict, calls) == verdict = "True"

\* lines 92-105 and sarvam_transcriber.py lines 67-71: what the call returns
Constructed(healthy, key) ==
    IF healthy
    THEN IF key THEN "SarvamTranscriber" ELSE "ValueError"
    ELSE "DeepgramTranscriber"

CallRecord(outcome, verdict) ==
    LET healthy == HealthyForCall(verdict, f_calls) IN
    [loop |-> f_loop, key |-> f_key, age |-> f_age, outcome |-> outcome,
     verdict |-> verdict, healthy |-> healthy,
     result |-> Constructed(healthy, f_key)]

\* the rest of create_transcriber once `healthy` is known (lines 92-105)
FinishCall(outcome, verdict) ==
    /\ f_calls' = Append(f_calls, CallRecord(outcome, verdict))
    /\ f_pc' = "idle"
    /\ f_sent' = 0

\* how old the verdict of the call before is when a call is made: "none"
\* for the first call, else younger ("fresh") or older ("stale") than five
\* minutes
Ages(calls) == IF calls = <<>> THEN {"none"} ELSE {"fresh", "stale"}

\* lines 80-84: whether a call made with no event loop running starts a
\* probe, given the calls made before and the age of the last verdict
Probes(calls, age) == TRUE

\* create_transcriber(SarvamTranscriberConfig) with no event loop running:
\* the probe is started (lines 81-84, 127)
CreateTranscriber(key, age) ==
    /\ f_pc = "idle"
    /\ Len(f_calls) < MaxCalls
    /\ Probes(f_calls, age)
    /\ f_loop' = FALSE
    /\ f_key' = key
    /\ f_age' = age
    /\ f_pc' = "connect"
    /\ UNCHANGED notF
    /\ UNCHANGED <<f_sent, f_calls>>

\* create_transcriber called from code running in an event loop: line 82
\* raises RuntimeError, line 87 raises RuntimeError, line 90
CreateTranscriberInLoop(key, age) ==
    /\ f_pc = "idle"
    /\ Len(f_calls) < MaxCalls
    /\ f_loop' = TRUE
    /\ f_key' = key
    /\ f_age' = age
    /\ f_calls' = Append(f_calls,
           [loop |-> TRUE, key |-> key, age |-> age, outcome |-> "not_run",
            verdict |-> "none",
            healthy |-> HealthyForCall("none", f_calls),
            result |-> Constructed(HealthyForCall("none", f_calls), key)])
    /\ UNCHANGED notF
    /\ UNCHANGED <<f_pc, f_sent>>

\* line 127: the connection is established
ProbeConnectOk ==
    /\ f_pc = "connect"
    /\ f_pc' = "send"
    /\ UNCHANGED notF
    /\ UNCHANGED <<f_loop, f_key, f_age, f_sent, f_calls>>

\* line 127 raises
ProbeConnectFail ==
    /\ f_pc = "connect"
    /\ FinishCall("connect_failed", ProbeVerdict("connect_failed"))
    /\ UNCHANGED notF
    /\ UNCHANGED <<f_loop, f_key, f_age>>

\* lines 130-131: one silence frame is sent
ProbeSendOk ==
    /\ f_pc = "send"
    /\ f_sent < ProbeBurst
    /\ f_sent' = f_sent + 1
    /\ f_pc' = IF f_sent + 1 = ProbeBurst THEN "recv" ELSE "send"
    /\ UNCHANGED notF
    /\ UNCHANGED <<f_loop, f_key, f_age, f_calls>>

\* line 131 raises
ProbeSendFail ==
    /\ f_pc = "send"
    /\ FinishCall("send_failed", ProbeVerdict("send_failed"))
    /\ UNCHANGED notF
    /\ UNCHANGED <<f_loop, f_key, f_age>>

\* lines 135-141: a first message arrives within 3 s
ProbeRecvMessage(msg) ==
    /\ f_pc = "recv"
    /\ FinishCall(msg, ProbeVerdict(msg))
    /\ UNCHANGED notF
    /\ UNCHANGED <<f_loop, f_key, f_age>>

\* line 135 raises ConnectionClosed
ProbeRecvClosed ==
    /\ f_pc = "recv"
    /\ FinishCall("recv_closed", ProbeVerdict("recv_closed"))
    /\ UNCHANGED notF
    /\ UNCHANGED <<f_loop, f_key, f_age>>

\* line 135: the read is wrapped in asyncio.wait_for(..., timeout=3.0)
ResponseWaitUnbounded == FALSE
ResponseWaitBounded == TRUE

\* lines 142-144: nothing arrives within 3 s
ProbeRecvTimeout ==
    /\ f_pc = "recv"
    /\ ResponseWaitBounded
    /\ FinishCall("timeout", ProbeVerdict("timeout"))
    /\ UNCHANGED notF
    /\ UNCHANGED <<f_loop, f_key, f_age>>

\* what the provider sends to the probe within the 3 s: one message or two
ProbeStreams ==
    UNION {[1..n -> ProbeMessages] : n \in 1..2}

\* line 135: the message the probe decides on; ws.recv() is called once
LastRead(msgs) == msgs[Len(msgs)]
FirstRead(msgs) == Head(msgs)

\* lines 135-141 with the messages the provider sends: the probe reads one
\* message, decides and leaves `async with`, which closes the connection;
\* the field sent is history
ProbeRecvStream(msgs) ==
    /\ f_pc = "recv"
    /\ LET msg == FirstRead(msgs) IN
       f_calls' = Append(f_calls,
           CallRecord(msg, ProbeVerdict(msg)) @@ [sent |-> msgs])
    /\ f_pc' = "idle"
    /\ f_sent' = 0
    /\ UNCHANGED notF
    /\ UNCHANGED <<f_loop, f_key, f_age>>

FNext ==
    \/ \E key \in BOOLEAN, age \in Ages(f_calls) : CreateTranscriber(key, age)
    \/ \E key \in BOOLEAN, age \in Ages(f_calls) :
          CreateTranscriberInLoop(key, age)
    \/ ProbeConnectOk
    \/ ProbeConnectFail
    \/ ProbeSendOk
    \/ ProbeSendFail
    \/ \E msg \in ProbeMessages : ProbeRecvMessage(msg)
    \/ ProbeRecvClosed
    \/ ProbeRecvTimeout

(***************************************************************************)
(* CartesiaSynthesizer: utterance contexts, the grace timer and            *)
(* create_speech_uncached                                                  *)
(***************************************************************************)
\* message texts, as sequences of characters
Texts == {<<"a">>, <<"b", " ">>}

NoCall == [pc |-> "none"]

\* tear_down has not run
NotTornDown == [torn |-> FALSE, closed |-> FALSE, in_flight |-> FALSE,
                late |-> FALSE]

CInit ==
    /\ c_ws = FALSE
    /\ c_ctx = 0
    /\ c_ctxs = <<>>
    /\ ctx_message = <<>>
    /\ ctx_timestamps = <<>>
    /\ c_timer = "none"
    /\ c_call = NoCall
    /\ c_results = <<>>
    /\ c_old = {}
    /\ c_down = NotTornDown
    /\ c_gens = <<>>

\* lines 148-150: the transcript sent for a message text
Transcript(text) ==
    IF text # <<>> /\ text[Len(text)] = " " THEN text ELSE text \o <<" ">>

\* lines 106-109
IsCtxDone(ctx, ctxs) == IF ctx = 0 THEN TRUE ELSE ctxs[ctx].completed

\* self.ws.context(): a new context with nothing written on it
NewCtx == [log |-> <<>>, completed |-> FALSE]

\* what is written on context ctx
Wrote(ctxs, ctx, event) ==
    [ctxs EXCEPT ![ctx].log = Append(@, event)]

\* line 118: whether initialize_ctx closes a context that is still open and
\* starts another one
EveryChunkStartsUtterance(is_first_text_chunk) == TRUE
StartsNewUtterance(is_first_text_chunk) == is_first_text_chunk

\* task.cancel() on self.no_more_inputs_task (lines 121-122, 127-128,
\* 255-256)
CancelForgotten(timer) == timer
Cancelled(timer) == IF timer = "sleeping" THEN "cancelled" ELSE timer

\* lines 127-128, 136: the task self.no_more_inputs_task referred to is
\* cancelled before the attribute is given the new task
Superseded(old, timer) ==
    IF timer = "none" THEN old ELSE old \cup {Cancelled(timer)}

\* lines 145-161: initialize_ws, initialize_ctx and the write of ctx.send;
\* the call is then suspended in `await self.ctx.send(...)`
CreateSpeechSend(text, is_first_text_chunk, is_sole_text_chunk) ==
    /\ c_call = NoCall
    /\ Len(c_results) < MaxSynth
    /\ c_ws' = TRUE
    /\ LET done == IsCtxDone(c_ctx, c_ctxs)
           fresh == done \/ StartsNewUtterance(is_first_text_chunk)
           \* lines 121-123: the open context is closed first
           closed == IF ~done /\ fresh
                     THEN Wrote(c_ctxs, c_ctx, [kind |-> "no_more_inputs"])
                     ELSE c_ctxs
           opened == IF fresh THEN Append(closed, NewCtx) ELSE closed
           ctx == IF fresh THEN Len(opened) ELSE c_ctx
           timer == IF ~done /\ fresh THEN Cancelled(c_timer) ELSE c_timer
       IN
       /\ c_ctx' = ctx
       /\ c_ctxs' = Wrote(opened, ctx,
                          [kind |-> "send", call |-> Len(c_results) + 1,
                           continue |-> ~is_sole_text_chunk])
       /\ c_timer' = timer
       /\ ctx_message' = IF fresh THEN <<>> ELSE ctx_message
       /\ ctx_timestamps' = IF fresh THEN <<>> ELSE ctx_timestamps
       /\ c_call' = [pc |-> "send", text |-> text,
                     first |-> is_first_text_chunk,
                     sole |-> is_sole_text_chunk,
                     ctx_open |-> ~done,
                     timer_at_send |-> c_timer]
    /\ UNCHANGED notC
    /\ UNCHANGED <<c_results, c_old, c_down, c_gens>>

\* lines 162-238: the send has completed; the timer is refreshed, the text
\* is added to ctx_message and the SynthesisResult is returned
CreateSpeechReturn ==
    /\ c_call # NoCall
    /\ c_timer' = IF c_call.sole THEN c_timer ELSE "sleeping"
    /\ ctx_message' = ctx_message \o Transcript(c_call.text)
    /\ c_results' = Append(c_results,
           [text |-> c_call.text, first |-> c_call.first, sole |-> c_call.sole,
            ctx |-> c_ctx, ctx_open |-> c_call.ctx_open,
            timer_at_send |-> c_call.timer_at_send,
            timer_fired |-> c_call.timer_at_send = "sleeping"
                            /\ c_timer = "done",
            message |-> ctx_message \o Transcript(c_call.text)])
    /\ c_call' = NoCall
    \* line 236: chunk_generator(self.ctx) is created, not yet started
    /\ c_gens' = Append(c_gens, "new")
    /\ c_old' = IF c_call.sole THEN c_old ELSE Superseded(c_old, c_timer)
    /\ UNCHANGED notC
    /\ UNCHANGED <<c_ws, c_ctx, c_ctxs, ctx_timestamps, c_down>>

\* the timer tasks that are in their asyncio.sleep(3): the one
\* self.no_more_inputs_task refers to and those it referred to before
NoPendingTimers(timer, old) == {}
PendingTimers(timer, old) ==
    {who \in {"current"} : timer = "sleeping"}
        \cup {who \in {"old"} : "sleeping" \in old}

\* lines 130-134: the 3 s of a task are over; the task takes the lock and
\* closes the current context unless it is done
TimerFire ==
    /\ \E who \in PendingTimers(c_timer, c_old) :
          /\ c_timer' = IF who = "current" THEN "done" ELSE c_timer
          /\ c_old' = IF who = "old"
                      THEN (c_old \ {"sleeping"}) \cup {"done"}
                      ELSE c_old
    /\ LET writes == c_ctx # 0 /\ ~IsCtxDone(c_ctx, c_ctxs)
       IN  /\ c_ctxs' = IF writes
                        THEN Wrote(c_ctxs, c_ctx, [kind |-> "no_more_inputs"])
                        ELSE c_ctxs
           /\ c_down' = IF writes /\ c_down.torn
                        THEN [c_down EXCEPT !.late = TRUE]
                        ELSE c_down
    /\ UNCHANGED notC
    /\ UNCHANGED <<c_ws, c_ctx, ctx_message, ctx_timestamps, c_call,
                   c_results, c_gens>>

\* the client library marks a context completed (the provider has finished
\* or failed it)
CtxCompleted(ctx) ==
    /\ ctx \in 1..Len(c_ctxs)
    /\ ~c_ctxs[ctx].completed
    /\ c_ctxs' = [c_ctxs EXCEPT ![ctx].completed = TRUE]
    /\ UNCHANGED notC
    /\ UNCHANGED <<c_ws, c_ctx, ctx_message, ctx_timestamps, c_timer, c_call,
                   c_results, c_old, c_down, c_gens>>

\* lines 253-265: tear_down cancels the timer task, leaves the connection
\* manager (which closes the connection) and closes the client
TearDown ==
    /\ c_timer' = Cancelled(c_timer)
    /\ c_down' = [c_down EXCEPT !.torn = TRUE, !.closed = c_ws,
                                !.in_flight = (@ \/ c_call # NoCall)]
    /\ UNCHANGED notC
    /\ UNCHANGED <<c_ws, c_ctx, c_ctxs, ctx_message, ctx_timestamps, c_call,
                   c_results, c_old, c_gens>>

\* a create_speech_uncached call made before tear_down
CreateSpeechBeforeTearDown(text, is_first_text_chunk, is_sole_text_chunk) ==
    /\ ~c_down.torn
    /\ CreateSpeechSend(text, is_first_text_chunk, is_sole_text_chunk)

\* lines 153-160: `await self.ctx.send(...)` raises because the connection
\* was closed under it; the exception leaves create_speech_uncached
CreateSpeechRaise ==
    /\ c_call # NoCall
    /\ c_down.torn
    /\ c_call' = NoCall
    /\ UNCHANGED notC
    /\ UNCHANGED <<c_ws, c_ctx, c_ctxs, ctx_message, ctx_timestamps, c_timer,
                   c_results, c_old, c_down, c_gens>>

\* lines 168-172: the frame generator of the r-th result is started by its
\* consumer; it returns at once, without a frame, when the context
\* self.ctx refers to at that moment is done
GenBegin(r) ==
    /\ r \in 1..Len(c_gens)
    /\ c_gens[r] = "new"
    /\ c_gens' = [c_gens EXCEPT ![r] = IF IsCtxDone(c_ctx, c_ctxs)
                                       THEN "skipped" ELSE "receiving"]
    /\ UNCHANGED notC
    /\ UNCHANGED <<c_ws, c_ctx, c_ctxs, ctx_message, ctx_timestamps, c_timer,
                   c_call, c_results, c_old, c_down>>

\* the entry lines 189-193 append for a timestamps event received on
\* context ctx; the field ctx is history, the list holds (word, start, end)
StampOn(ctx, stamps, word, duration) ==
    LET start == IF stamps = <<>> THEN 0 ELSE stamps[Len(stamps)].end
    IN  [word |-> word, start |-> start, end |-> start + duration,
         ctx |-> ctx]

\* lines 175, 189-193: the generator of the r-th result receives a
\* timestamps event from the context it was created with (the argument
\* `context`) and appends it to the list self.ctx_timestamps refers to
GenTimestamps(r, word, duration) ==
    /\ r \in 1..Len(c_gens)
    /\ c_gens[r] = "receiving"
    /\ Len(ctx_timestamps) < MaxStamps
    /\ ctx_timestamps' = Append(ctx_timestamps,
           StampOn(c_results[r].ctx, ctx_timestamps, word, duration))
    /\ UNCHANGED notC
    /\ UNCHANGED <<c_ws, c_ctx, c_ctxs, ctx_message, c_timer, c_call,
                   c_results, c_old, c_down, c_gens>>

\* lines 235-238: what get_message_up_to of the r-th result works on when
\* it is called: the lambda looks up self.ctx_message at the call (line
\* 237) and get_message_cutoff_ctx looks up self.ctx_timestamps (lines
\* 222-223)
TruncateMessage(r) == ctx_message
TruncateTimestamps(r) == ctx_timestamps

\* lines 199-215: the generator of the r-th result leaves the receive loop
\* (done event, end of the stream or an exception) and yields its last
\* frame
GenEnd(r) ==
    /\ r \in 1..Len(c_gens)
    /\ c_gens[r] = "receiving"
    /\ c_gens' = [c_gens EXCEPT ![r] = "ended"]
    /\ UNCHANGED notC
    /\ UNCHANGED <<c_ws, c_ctx, c_ctxs, ctx_message, ctx_timestamps, c_timer,
                   c_call, c_results, c_old, c_down>>

CNext ==
    \/ \E text \in Texts, first \in BOOLEAN, sole \in BOOLEAN :
           CreateSpeechSend(text, first, sole)
    \/ CreateSpeechReturn
    \/ TimerFire
    \/ \E ctx \in 1..MaxSynth : CtxCompleted(ctx)

(***************************************************************************)
(* truncate_at: SynthesisResult.get_message_up_to of both synthesizers.    *)
(* A text is a sequence of characters; elapsed time is counted in ticks.   *)
(***************************************************************************)
Words == {<<"a">>, <<"b", "c">>}

\* the elapsed times truncate_at is asked about
Elapsed == (0 - TicksPerSecond)..MaxElapsed

\* how long the provider takes to speak a word: a short word, and one that
\* lasts longer than the NearSeconds of line 229
Durations == {1, NearSeconds * TicksPerSecond + 1}

UInit ==
    /\ sarvam_text = <<>>
    /\ cutoffs = <<>>

\* line 230: " ".join(...)
RECURSIVE Join(_)
Join(words) ==
    IF words = <<>> THEN <<>>
    ELSE IF Len(words) = 1 THEN words[1]
    ELSE words[1] \o <<" ">> \o Join(Tail(words))

\* the words of `text`, where `word` is the word begun so far
RECURSIVE Split(_, _)
Split(text, word) ==
    IF text = <<>> THEN (IF word = <<>> THEN <<>> ELSE <<word>>)
    ELSE IF Head(text) = " "
         THEN (IF word = <<>> THEN <<>> ELSE <<word>>) \o Split(Tail(text), <<>>)
         ELSE Split(Tail(text), Append(word, Head(text)))

\* the tokens of a text: its maximal runs of non-blank characters
Tokens(text) == Split(text, <<>>)

\* words spoken after `seconds` ticks at words_per_minute
EstimatedWordsSpoken(seconds) ==
    (WordsPerMinute * seconds) \div (60 * TicksPerSecond)

\* BaseSynthesizer.get_message_cutoff_from_voice_speed: the words-per-minute
\* estimate, the prefix of the text spoken by the elapsed time
get_message_cutoff_from_voice_speed(text, seconds) ==
    IF seconds <= 0 THEN <<>>
    ELSE LET tokens == Tokens(text)
             n == EstimatedWordsSpoken(seconds)
         IN  Join(SubSeq(tokens, 1, IF n < Len(tokens) THEN n ELSE Len(tokens)))

\* lines 221-227: the index (from 0) of the first timestamp that ends at or
\* after `seconds`, of the last timestamp if none does, 0 without timestamps
ClosestIndex(timestamps, seconds) ==
    LET hits == {k \in 1..Len(timestamps) : timestamps[k].end >= seconds}
    IN  IF timestamps = <<>> THEN 0
        ELSE IF hits = {} THEN Len(timestamps) - 1
        ELSE (CHOOSE k \in hits : \A h \in hits : k <= h) - 1

\* lines 219-233
get_message_cutoff_ctx(text, timestamps, seconds) ==
    LET closest_index == ClosestIndex(timestamps, seconds)
    IN  IF /\ seconds # 0
           /\ closest_index # 0
           /\ timestamps[closest_index + 1].end - seconds
                  < NearSeconds * TicksPerSecond
        THEN Join([k \in 1..(closest_index + 1) |-> timestamps[k].word])
        ELSE get_message_cutoff_from_voice_speed(text, seconds)

\* sarvam_synthesizer.py line 193: lambda seconds: message.text
SarvamMessageUpTo(text, seconds) == text

\* the sequences of n words
RECURSIVE WordSeqs(_)
WordSeqs(n) ==
    IF n = 0 THEN {<<>>}
    ELSE {Append(ws, w) : ws \in WordSeqs(n - 1), w \in Words}

\* ctx_message.text after the words were sent as fragments of one context
\* (lines 148-150, 217)
RECURSIVE MessageOf(_)
MessageOf(words) ==
    IF words = <<>> THEN <<>>
    ELSE Transcript(Head(words)) \o MessageOf(Tail(words))

RECURSIVE EndOf(_, _)
EndOf(durations, k) == IF k = 0 THEN 0 ELSE EndOf(durations, k - 1) + durations[k]

\* ctx_timestamps after the provider has sent the timestamps of the first
\* Len(durations) words (lines 189-193)
Stamps(words, durations) ==
    [k \in 1..Len(durations) |->
        [word |-> words[k], start |-> EndOf(durations, k - 1),
         end |-> EndOf(durations, k)]]

\* the context after the words were sent on it
SentCtx(words) ==
    [log |-> [k \in 1..Len(words) |->
                 [kind |-> "send", call |-> k, continue |-> TRUE]],
     completed |-> FALSE]

\* cartesia_synthesizer.py line 237: the lambda reads self.ctx_message and
\* self.ctx_timestamps when it is called
TruncateAtCartesia(seconds) ==
    /\ Len(cutoffs) < MaxCutoffs
    /\ cutoffs' = Append(cutoffs,
           [synthesizer |-> "cartesia", seconds |-> seconds,
            text |-> get_message_cutoff_ctx(ctx_message, ctx_timestamps,
                                            seconds)])
    /\ UNCHANGED sarvam_text
    /\ UNCHANGED notU

\* sarvam_synthesizer.py line 193
TruncateAtSarvam(seconds) ==
    /\ Len(cutoffs) < MaxCutoffs
    /\ cutoffs' = Append(cutoffs,
           [synthesizer |-> "sarvam", seconds |-> seconds,
            text |-> SarvamMessageUpTo(sarvam_text, seconds)])
    /\ UNCHANGED sarvam_text
    /\ UNCHANGED notU

UNext ==
    \/ \E seconds \in Elapsed : TruncateAtCartesia(seconds)
    \/ \E seconds \in Elapsed : TruncateAtSarvam(seconds)

(***************************************************************************)
(* Frame buffering: the chunk_generator of a Cartesia synthesis and the    *)
(* chunk loop of a Sarvam synthesis.  A byte string is kept as its runs:   *)
(* a sequence of [byte, count] in which neighbours differ in their byte    *)
(* and every count is positive, so that equal byte strings are equal       *)
(* values.                                                                 *)
(***************************************************************************)
Encodings == {"pcm_mulaw", "pcm_s16le"}

Bytes == {0, 255}

\* len(b)
RECURSIVE BLen(_)
BLen(b) == IF b = <<>> THEN 0 ELSE Head(b).count + BLen(Tail(b))

\* bytes([byte]) * n
BRepeat(byte, n) == IF n <= 0 THEN <<>> ELSE <<[byte |-> byte, count |-> n]>>

\* a + b
BCat(a, b) ==
    IF a = <<>> THEN b
    ELSE IF b = <<>> THEN a
    ELSE IF a[Len(a)].byte = Head(b).byte
         THEN SubSeq(a, 1, Len(a) - 1)
                  \o <<[byte |-> Head(b).byte,
                        count |-> a[Len(a)].count + Head(b).count]>>
                  \o Tail(b)
         ELSE a \o b

\* b[:n]
RECURSIVE BTake(_, _)
BTake(b, n) ==
    IF b = <<>> \/ n <= 0 THEN <<>>
    ELSE IF Head(b).count <= n
         THEN BCat(<<Head(b)>>, BTake(Tail(b), n - Head(b).count))
         ELSE BRepeat(Head(b).byte, n)

\* b[n:]
RECURSIVE BDrop(_, _)
BDrop(b, n) ==
    IF b = <<>> THEN <<>>
    ELSE IF n <= 0 THEN b
    ELSE IF Head(b).count <= n THEN BDrop(Tail(b), n - Head(b).count)
    ELSE <<[byte |-> Head(b).byte, count |-> Head(b).count - n]>> \o Tail(b)

\* the byte string of a sequence of bytes
RECURSIVE BytesOf(_)
BytesOf(seq) ==
    IF seq = <<>> THEN <<>>
    ELSE BCat(BRepeat(Head(seq), 1), BytesOf(Tail(seq)))

\* the non-empty audio payloads of one event
Payloads == {BytesOf(seq) : seq \in UNION {[1..n -> Bytes] : n \in 1..MaxBytes}}

GInit ==
    /\ gen_synth = "none"
    /\ gen_pc = "idle"
    /\ encoding = "pcm_mulaw"
    /\ chunk_size = 1
    /\ received = <<>>
    /\ buffer = <<>>
    /\ loop_i = 0
    /\ frames = <<>>
    /\ gen_silence = FALSE
    /\ gen_sent = 0
    /\ gen_failure = "none"

\* cartesia_synthesizer.py lines 209-212: b"\xff" for pcm_mulaw, b"\x00" for
\* pcm_s16le
PadByte(enc) == IF enc = "pcm_mulaw" THEN 255 ELSE 0

\* n bytes of the encoding's silence value
Silence(enc, n) == BRepeat(PadByte(enc), n)

\* line 183: while len(buffer) >= chunk_size
HasFullFrameStrict(buf, size) == BLen(buf) > size
HasFullFrame(buf, size) == BLen(buf) >= size

\* line 187: buffer = buffer[chunk_size:]
RestKeepsFrame(buf, size) == buf
Rest(buf, size) == BDrop(buf, size)

\* line 208: padding_size = chunk_size - len(buffer)
NoPaddingSize(buf, size) == 0
PaddingSize(buf, size) == size - BLen(buf)

\* SynthesisResult.ChunkResult, with the padding_size its chunk was built
\* with
ChunkResult(chunk, is_last_chunk, padding_size) ==
    [chunk |-> chunk, is_last_chunk |-> is_last_chunk,
     padding_size |-> padding_size]

\* sarvam_synthesizer.py line 179
stream_chunk_size(size) == IF size < StreamChunkCap THEN size ELSE StreamChunkCap

\* sarvam_synthesizer.py line 185: is_last_chunk of the slice that starts at i
IsLastSliceStrict(i, size, total) == i + size > total
IsLastSlice(i, size, total) == i + size >= total

\* cartesia lines 153-161: create_speech_uncached sends the transcript of
\* every text on the context before it returns; sarvam lines 76-194:
\* create_speech sends nothing, the request is made by the generator
SentByCreateSpeech(synth, silence) == IF synth = "cartesia" THEN 1 ELSE 0

\* line 203: `except Exception` around the receive loop handles what ends it
HandlesDoneOnly(cause) == cause = "done"
Handles(cause) == cause \in {"done", "exception"}

\* create_speech(_uncached) has returned a SynthesisResult whose generator
\* has not been started yet; `silence` tells whether the text is a silence
\* token
CreateSpeech(synth, enc, size, silence) ==
    /\ gen_pc = "idle"
    /\ gen_synth' = synth
    /\ encoding' = enc
    /\ chunk_size' = size
    /\ gen_silence' = silence
    /\ gen_sent' = SentByCreateSpeech(synth, silence)
    /\ gen_pc' = "start"
    /\ UNCHANGED <<received, buffer, loop_i, frames, gen_failure>>
    /\ UNCHANGED cvars
    /\ UNCHANGED notG

\* cartesia lines 169-172: the generator starts; it returns at once if the
\* context is done by then
GenStart(done) ==
    /\ gen_synth = "cartesia"
    /\ gen_pc = "start"
    /\ gen_pc' = IF done THEN "skipped" ELSE "receive"
    /\ UNCHANGED <<gen_synth, encoding, chunk_size, received, buffer, loop_i,
                   frames>>
    /\ UNCHANGED gen_hist
    /\ UNCHANGED cvars
    /\ UNCHANGED notG

\* lines 178-183: a "chunk" event with audio, of at most `most` bytes in all
RecvChunk(audio, most) ==
    /\ gen_synth = "cartesia"
    /\ gen_pc = "receive"
    /\ BLen(received) + BLen(audio) <= most
    /\ received' = BCat(received, audio)
    /\ buffer' = BCat(buffer, audio)
    /\ gen_pc' = IF HasFullFrame(BCat(buffer, audio), chunk_size)
                 THEN "yield" ELSE "receive"
    /\ UNCHANGED <<gen_synth, encoding, chunk_size, loop_i, frames>>
    /\ UNCHANGED gen_hist
    /\ UNCHANGED cvars
    /\ UNCHANGED notG

\* lines 183-187: one turn of the while loop
YieldFrame ==
    /\ gen_synth = "cartesia"
    /\ gen_pc = "yield"
    /\ frames' = Append(frames,
                        ChunkResult(BTake(buffer, chunk_size), FALSE, 0))
    /\ buffer' = Rest(buffer, chunk_size)
    /\ gen_pc' = IF HasFullFrame(Rest(buffer, chunk_size), chunk_size)
                 THEN "yield" ELSE "receive"
    /\ UNCHANGED <<gen_synth, encoding, chunk_size, received, loop_i>>
    /\ UNCHANGED gen_hist
    /\ UNCHANGED cvars
    /\ UNCHANGED notG

\* lines 189-193: a "timestamps" event for one word
RecvTimestamps(word, duration) ==
    /\ gen_synth = "cartesia"
    /\ gen_pc = "receive"
    /\ Len(ctx_timestamps) < MaxStamps
    /\ LET start == IF ctx_timestamps = <<>> THEN 0
                    ELSE ctx_timestamps[Len(ctx_timestamps)].end
       IN  ctx_timestamps' = Append(ctx_timestamps,
               [word |-> word, start |-> start, end |-> start + duration])
    /\ UNCHANGED <<c_ws, c_ctx, c_ctxs, ctx_message, c_timer, c_call,
                   c_results, c_old, c_down, c_gens>>
    /\ UNCHANGED gvars
    /\ UNCHANGED notG

\* lines 178-180: a chunk without audio, or an event of another type, is
\* skipped and the loop goes on
RecvNothing ==
    /\ gen_synth = "cartesia"
    /\ gen_pc = "receive"
    /\ UNCHANGED vars

\* lines 195-197: an "error" event of the provider is printed and the loop
\* goes on
RecvError ==
    /\ gen_synth = "cartesia"
    /\ gen_pc = "receive"
    /\ gen_failure' = "error_event"
    /\ UNCHANGED <<gen_synth, gen_pc, encoding, chunk_size, received, buffer,
                   loop_i, frames, gen_silence, gen_sent>>
    /\ UNCHANGED cvars
    /\ UNCHANGED notG

\* lines 199-215: the "done" event or the end of the events ("done"), or an
\* exception raised by receive() ("exception"), ends the loop; what is left
\* in the buffer is padded and yielded as the last frame, an empty last
\* frame if nothing is left
RecvEnds(cause) ==
    /\ gen_synth = "cartesia"
    /\ gen_pc = "receive"
    /\ gen_failure' = IF cause = "exception" THEN "exception" ELSE gen_failure
    /\ IF Handles(cause)
       THEN LET padding_size == IF buffer # <<>> /\ BLen(buffer) < chunk_size
                                THEN PaddingSize(buffer, chunk_size) ELSE 0
                padded == BCat(buffer, Silence(encoding, padding_size))
            IN  /\ buffer' = padded
                /\ frames' = Append(frames,
                                    ChunkResult(padded, TRUE, padding_size))
                /\ gen_pc' = "ended"
       ELSE /\ gen_pc' = "raised"
            /\ UNCHANGED <<buffer, frames>>
    /\ UNCHANGED <<gen_synth, encoding, chunk_size, received, loop_i,
                   gen_silence, gen_sent>>
    /\ UNCHANGED cvars
    /\ UNCHANGED notG

\* sarvam lines 86-90: the text is a silence token: the generator returns
\* before any request is made
SarvamSilence ==
    /\ gen_synth = "sarvam"
    /\ gen_pc = "start"
    /\ gen_silence
    /\ gen_pc' = "skipped"
    /\ UNCHANGED <<gen_synth, encoding, chunk_size, received, buffer, loop_i,
                   frames>>
    /\ UNCHANGED gen_hist
    /\ UNCHANGED cvars
    /\ UNCHANGED notG

\* sarvam lines 92-138, 188-189: the request is made and fails: an error
\* response, a response without audio or an exception; the generator ends
\* without a frame
SarvamNoAudio ==
    /\ gen_synth = "sarvam"
    /\ gen_pc = "start"
    /\ ~gen_silence
    /\ gen_sent' = gen_sent + 1
    /\ gen_failure' = "request"
    /\ gen_pc' = "skipped"
    /\ UNCHANGED <<gen_synth, encoding, chunk_size, received, buffer, loop_i,
                   frames, gen_silence>>
    /\ UNCHANGED cvars
    /\ UNCHANGED notG

\* sarvam lines 140-180: audio_bytes, decoded and converted, enters the
\* chunk loop
SarvamAudio(audio) ==
    /\ gen_synth = "sarvam"
    /\ gen_pc = "start"
    /\ received' = audio
    /\ loop_i' = 0
    /\ ~gen_silence
    /\ gen_sent' = gen_sent + 1
    /\ gen_pc' = IF audio = <<>> THEN "ended" ELSE "loop"
    /\ UNCHANGED <<gen_synth, encoding, chunk_size, buffer, frames,
                   gen_silence, gen_failure>>
    /\ UNCHANGED cvars
    /\ UNCHANGED notG

\* sarvam lines 180-186: one turn of the for loop
SarvamYield ==
    /\ gen_synth = "sarvam"
    /\ gen_pc = "loop"
    /\ LET size == stream_chunk_size(chunk_size)
       IN  /\ frames' = Append(frames,
                   ChunkResult(BTake(BDrop(received, loop_i), size),
                               IsLastSlice(loop_i, size, BLen(received)), 0))
           /\ loop_i' = loop_i + size
           /\ gen_pc' = IF loop_i + size < BLen(received) THEN "loop"
                        ELSE "ended"
    /\ UNCHANGED <<gen_synth, encoding, chunk_size, received, buffer>>
    /\ UNCHANGED gen_hist
    /\ UNCHANGED cvars
    /\ UNCHANGED notG

GNext ==
    \/ \E synth \in {"cartesia", "sarvam"}, enc \in Encodings,
          size \in 1..MaxChunkSize, silence \in BOOLEAN :
              CreateSpeech(synth, enc, size, silence)
    \/ \E done \in BOOLEAN : GenStart(done)
    \/ \E audio \in Payloads : RecvChunk(audio, MaxBytes)
    \/ YieldFrame
    \/ \E word \in Words, duration \in Durations : RecvTimestamps(word, duration)
    \/ RecvNothing
    \/ RecvError
    \/ \E cause \in {"done", "exception"} : RecvEnds(cause)
    \/ SarvamSilence
    \/ SarvamNoAudio
    \/ \E audio \in Payloads \cup {<<>>} : SarvamAudio(audio)
    \/ SarvamYield

\* the scenario: chunks of ScenarioChunkBytes bytes of silence, at most
\* ScenarioChunks of them, into frames of ScenarioFrameSize bytes
ScenarioNext ==
    \/ \E enc \in Encodings :
          CreateSpeech("cartesia", enc, ScenarioFrameSize, FALSE)
    \/ \E done \in BOOLEAN : GenStart(done)
    \/ RecvChunk(Silence(encoding, ScenarioChunkBytes),
                 ScenarioChunks * ScenarioChunkBytes)
    \/ YieldFrame
    \/ \E cause \in {"done", "exception"} : RecvEnds(cause)

\* a Sarvam synthesis of up to ScenarioChunks * ScenarioChunkBytes bytes of
\* audio, asked for in frames of the cap of line 179 or of twice the cap
LargeFramesNext ==
    \/ \E enc \in Encodings,
          size \in {ScenarioFrameSize, 2 * ScenarioFrameSize} :
              CreateSpeech("sarvam", enc, size, FALSE)
    \/ \E n \in 1..ScenarioChunks :
          SarvamAudio(Silence(encoding, n * ScenarioChunkBytes))
    \/ SarvamNoAudio
    \/ SarvamYield

(***************************************************************************)
(* Specifications                                                          *)
(***************************************************************************)
(* _sarvam_to_deepgram_fallback: the Deepgram config built from a Sarvam   *)
(* config (default_factory.py lines 25-46)                                 *)
(***************************************************************************)
\* a language is a string, kept as a sequence of characters; NoLanguage is
\* None or the empty string
NoLanguage == <<>>
Languages == {NoLanguage, <<"h", "i">>, <<"h", "i", "-", "I", "N">>,
              <<"t", "a", "-", "I", "N">>,
              <<"t", "a", "-", "I", "N", "-", "x">>}

\* the SarvamTranscriberConfigs a call can be made with; "None" and 0 stand
\* for an optional field that is not set
SarvamConfigs ==
    [sampling_rate : {8000, 16000},
     audio_encoding : {"mulaw", "linear16"},
     chunk_size : {2048, 4096},
     endpointing_config : {"None", "punctuation_based"},
     downsampling : {0, 2},
     min_interrupt_confidence : {"None", "0.5"},
     mute_during_speech : BOOLEAN,
     language : Languages]

NoConfig == [type |-> "none"]

DInit ==
    /\ sarvam_config = NoConfig
    /\ deepgram_config = NoConfig

\* str.split("-")[0]: the characters before the first "-"
RECURSIVE BeforeDash(_)
BeforeDash(lang) ==
    IF lang = <<>> \/ Head(lang) = "-" THEN <<>>
    ELSE <<Head(lang)>> \o BeforeDash(Tail(lang))

\* lines 30-33
FallbackLanguageKeepsRegion(language) ==
    IF language = NoLanguage THEN <<"h", "i">> ELSE language
FallbackLanguage(language) ==
    LET lang == IF language = NoLanguage THEN <<"h", "i">> ELSE language
    IN  IF \E k \in 1..Len(lang) : lang[k] = "-"
        THEN BeforeDash(lang) ELSE lang

\* lines 35-46
FallbackWithDefaultChunkSize(transcriber_config) ==
    [transcriber_config EXCEPT
        !.chunk_size = 2048,
        !.language = FallbackLanguage(transcriber_config.language)]
sarvam_to_deepgram_fallback(transcriber_config) ==
    [sampling_rate |-> transcriber_config.sampling_rate,
     audio_encoding |-> transcriber_config.audio_encoding,
     chunk_size |-> transcriber_config.chunk_size,
     endpointing_config |-> transcriber_config.endpointing_config,
     downsampling |-> transcriber_config.downsampling,
     min_interrupt_confidence |-> transcriber_config.min_interrupt_confidence,
     mute_during_speech |-> transcriber_config.mute_during_speech,
     language |-> FallbackLanguage(transcriber_config.language),
     model |-> "nova-2"]

\* lines 104-105: the fallback is built for the config of the call
BuildFallback(transcriber_config) ==
    /\ sarvam_config' = transcriber_config
    /\ deepgram_config' = sarvam_to_deepgram_fallback(transcriber_config)
    /\ UNCHANGED notD

DNext ==
    \E transcriber_config \in SarvamConfigs : BuildFallback(transcriber_config)

(***************************************************************************)
Init == TInit /\ FInit /\ CInit /\ UInit /\ GInit /\ DInit

\* the transcriber alone
SpecTranscriber == Init /\ [][TNext]_vars

\* the transcriber with its program steps scheduled fairly: the event loop
\* runs every task that can take a step, a connect attempt comes to an end
\* and the 5 s wait of the send duty (line 143) and the 0.5 s backoff
\* (line 108) run out; the provider, the telephony leg and the caller of
\* terminate() are under no obligation
TFairness ==
    /\ WF_vars(RunLoopEnter)
    /\ WF_vars(RunLoopExit)
    /\ WF_vars(ConnectOk \/ ConnectFail)
    /\ WF_vars(BackoffDone)
    /\ WF_vars(SendTop)
    /\ WF_vars(SendChunk)
    /\ WF_vars(SendHeartbeat)
    /\ WF_vars(RecvTop)
    /\ WF_vars(RecvClosed)
    /\ WF_vars(GatherReturn)
    /\ WF_vars(GatherRaise)
    /\ WF_vars(\E c \in ProviderCloses : OrphanRecvClosed(c))

\* the transcriber as far as its termination goes: the inbound messages are
\* those without a Transcription (the output queue has no part in how the
\* duties end)
TerminateMessages ==
    {m \in Messages : Produced(m) = <<>> /\ m.text = NoText}

TerminateNext ==
    \/ RunLoopStart
    \/ RunLoopEnter
    \/ RunLoopExit
    \/ ConnectOk
    \/ ConnectFail
    \/ BackoffDone
    \/ SendTop
    \/ SendChunk
    \/ SendHeartbeat
    \/ RecvTop
    \/ \E m \in TerminateMessages : RecvMessage(m)
    \/ RecvClosed
    \/ GatherReturn
    \/ GatherRaise
    \/ \E c \in ProviderCloses : OrphanRecvClosed(c)
    \/ \E c \in ProviderCloses : OrphanRecvEnded(c)
    \/ \E c \in ProviderCloses : ProviderClose(c)
    \/ \E chunk \in ChunkKinds : Feed(chunk)
    \/ Terminate

SpecTerminate == Init /\ [][TerminateNext]_vars /\ TFairness

\* _run_loop has returned and has reported the stream as failed
StreamReportedFailed == rl_pc = "end" /\ ReportsFailure(restarts)

\* the transcriber as far as the delivery of Transcriptions goes: the
\* provider numbers the texts it sends, each with the connection it is sent
\* on, and the telephony leg feeds well-formed chunks
DeliveryMessages ==
    [type : {"partial", "final_transcript"},
     text : {<<attempts, Len(output_queue) + 1>>}]
        \cup {[type |-> "error", text |-> NoText]}

DeliveryNext ==
    \/ RunLoopStart
    \/ RunLoopEnter
    \/ RunLoopExit
    \/ ConnectOk
    \/ ConnectFail
    \/ BackoffDone
    \/ SendTop
    \/ SendChunk
    \/ SendHeartbeat
    \/ RecvTop
    \/ \E m \in DeliveryMessages : RecvMessage(m)
    \/ RecvClosed
    \/ GatherReturn
    \/ GatherRaise
    \/ \E c \in ProviderCloses : OrphanRecvClosed(c)
    \/ \E c \in ProviderCloses : OrphanRecvEnded(c)
    \/ \E c \in ProviderCloses : ProviderClose(c)
    \/ Feed("good")
    \/ Terminate

SpecDelivery == Init /\ [][DeliveryNext]_vars

\* the fallback configuration alone
SpecFallback == Init /\ [][DNext]_vars

\* the transcriber fed with well-formed and malformed chunks only (no None
\* sentinel) and receiving messages without a Transcription
MalformedNext ==
    \/ RunLoopStart
    \/ RunLoopEnter
    \/ RunLoopExit
    \/ ConnectOk
    \/ ConnectFail
    \/ BackoffDone
    \/ SendTop
    \/ SendChunk
    \/ SendHeartbeat
    \/ RecvTop
    \/ \E m \in TerminateMessages : RecvMessage(m)
    \/ RecvClosed
    \/ GatherReturn
    \/ GatherRaise
    \/ \E c \in ProviderCloses : OrphanRecvClosed(c)
    \/ \E c \in ProviderCloses : OrphanRecvEnded(c)
    \/ \E c \in ProviderCloses : ProviderClose(c)
    \/ \E chunk \in {"good", "odd"} : Feed(chunk)
    \/ Terminate

SpecMalformed == Init /\ [][MalformedNext]_vars

\* the messages of a provider that stamps each text with the number of
\* error events it has sent on the connection before
ReceiveMessages ==
    [type : MsgTypes, text : {NoText, <<recv_log.errors>>}]

\* the transcriber with the log of error events kept
ReceiveInit ==
    TInitLogging(LogOn) /\ FInit /\ CInit /\ UInit /\ GInit /\ DInit

\* the transcriber of a caller who stays silent (the send duty writes
\* heartbeats only), receiving stamped messages
ReceiveNext ==
    \/ RunLoopStart
    \/ RunLoopEnter
    \/ RunLoopExit
    \/ ConnectOk
    \/ ConnectFail
    \/ BackoffDone
    \/ SendTop
    \/ SendHeartbeat
    \/ RecvTop
    \/ \E m \in ReceiveMessages : RecvMessage(m)
    \/ RecvClosed
    \/ GatherReturn
    \/ GatherRaise
    \/ \E c \in ProviderCloses : OrphanRecvClosed(c)
    \/ \E c \in ProviderCloses : OrphanRecvEnded(c)
    \/ \E c \in ProviderCloses : ProviderClose(c)
    \/ Terminate

SpecReceive == ReceiveInit /\ [][ReceiveNext]_vars

\* the factory alone
SpecFactory == Init /\ [][FNext]_vars

\* the factory with a provider that may stay silent for ever: the waits of
\* the probe come to an end (the connect attempt and each write end one way
\* or the other, the 3 s of the read elapse), while no message and no close
\* from the provider is ever required
ProbeFairness ==
    /\ WF_vars(ProbeConnectOk \/ ProbeConnectFail)
    /\ WF_vars(ProbeSendOk \/ ProbeSendFail)
    /\ WF_vars(ProbeRecvTimeout)

SpecProbe == Init /\ [][FNext]_vars /\ ProbeFairness

\* the Cartesia synthesizer alone
SpecCartesia == Init /\ [][CNext]_vars

\* the Cartesia synthesizer, not torn down, with its own steps taken when
\* they can be: a call suspended in ctx.send resumes, the 3 s of a timer
\* elapse; the fragments and the provider are left free
GraceFairness ==
    /\ WF_vars(CreateSpeechReturn)
    /\ WF_vars(TimerFire)

\* the fragments all carry the same text: what is written on a context
\* does not depend on it
GraceNext ==
    \/ \E first \in BOOLEAN, sole \in BOOLEAN :
           CreateSpeechSend(<<"a">>, first, sole)
    \/ CreateSpeechReturn
    \/ TimerFire
    \/ \E ctx \in 1..MaxSynth : CtxCompleted(ctx)

SpecGrace == Init /\ [][GraceNext]_vars /\ GraceFairness

\* the factory with a provider that sends the probe up to two messages
StreamNext ==
    \/ \E key \in BOOLEAN, age \in Ages(f_calls) : CreateTranscriber(key, age)
    \/ ProbeConnectOk
    \/ ProbeConnectFail
    \/ ProbeSendOk
    \/ ProbeSendFail
    \/ \E msgs \in ProbeStreams : ProbeRecvStream(msgs)
    \/ ProbeRecvClosed
    \/ ProbeRecvTimeout

SpecStream == Init /\ [][StreamNext]_vars

\* the Cartesia synthesizer with the consumers of its results: each
\* returned frame generator is started and consumed at any later moment,
\* also after further create_speech_uncached calls; the fragments carry
\* the two texts in turn and the words have the same duration
FragmentText(n) == IF n % 2 = 0 THEN <<"a">> ELSE <<"b", " ">>

UtteranceNext ==
    \/ \E first \in BOOLEAN, sole \in BOOLEAN :
           CreateSpeechSend(FragmentText(Len(c_results)), first, sole)
    \/ CreateSpeechReturn
    \/ TimerFire
    \/ \E ctx \in 1..MaxSynth : CtxCompleted(ctx)
    \/ \E r \in 1..MaxSynth : GenBegin(r)
    \/ \E r \in 1..MaxSynth : GenTimestamps(r, <<"a">>, 1)
    \/ \E r \in 1..MaxSynth : GenEnd(r)

SpecUtterance == Init /\ [][UtteranceNext]_vars

\* the Cartesia synthesizer with tear_down called at any moment, also while
\* a create_speech_uncached call is suspended in ctx.send
TearDownNext ==
    \/ \E text \in Texts, first \in BOOLEAN, sole \in BOOLEAN :
           CreateSpeechBeforeTearDown(text, first, sole)
    \/ CreateSpeechReturn
    \/ CreateSpeechRaise
    \/ TimerFire
    \/ \E ctx \in 1..MaxSynth : CtxCompleted(ctx)
    \/ TearDown

SpecTearDown == Init /\ [][TearDownNext]_vars

\* the synthesizers after some fragments were synthesized in one context and
\* the provider has sent the timestamps of some of their words; a Sarvam
\* result exists for some text
TruncateInit ==
    /\ TInit /\ FInit /\ GInit /\ DInit
    /\ \E n \in 0..MaxWords : \E words \in WordSeqs(n) :
       \E k \in 0..n : \E durations \in [1..k -> Durations] :
          /\ ctx_message = MessageOf(words)
          /\ ctx_timestamps = Stamps(words, durations)
          /\ c_ws = (n > 0)
          /\ c_ctx = IF n > 0 THEN 1 ELSE 0
          /\ c_ctxs = IF n > 0 THEN <<SentCtx(words)>> ELSE <<>>
    /\ c_timer = "none"
    /\ c_call = NoCall
    /\ c_results = <<>>
    /\ c_old = {}
    /\ c_down = NotTornDown
    /\ c_gens = <<>>
    /\ sarvam_text \in {Join(ws) : ws \in WordSeqs(0) \cup WordSeqs(1)}
    /\ cutoffs = <<>>

\* truncate_at evaluated on the states the synthesizers can be in
SpecTruncate == TruncateInit /\ [][UNext]_vars

\* the frame buffering of one synthesis
SpecFrames == Init /\ [][GNext]_vars

\* the frame buffering in the scenario of 20 chunks of 3200 bytes
SpecScenario == Init /\ [][ScenarioNext]_vars

\* the chunk loop of a Sarvam synthesis asked for large frames
SpecLargeFrames == Init /\ [][LargeFramesNext]_vars

\* cartesia lines 235-238, sarvam lines 191-194: the SynthesisResult is
\* returned with the generator and get_message_up_to together, so the
\* function can be called from then on, whatever the generator has done
ResultReadyWhenConsumed(pc) == pc \in {"ended", "skipped"}
ResultReady(pc) == pc # "idle"

\* get_message_up_to of the result whose generator is being consumed
\* (cartesia line 237, sarvam line 193): a synchronous call that reads the
\* message and the timestamps; each evaluation is recorded with the number
\* of frames the generator had yielded by then (history)
GetMessageUpTo(seconds) ==
    /\ ResultReady(gen_pc)
    /\ Len(cutoffs) < MaxCutoffs
    /\ cutoffs' = Append(cutoffs,
           [synthesizer |-> gen_synth, seconds |-> seconds,
            text |-> IF gen_synth = "cartesia"
                     THEN get_message_cutoff_ctx(ctx_message, ctx_timestamps,
                                                 seconds)
                     ELSE SarvamMessageUpTo(sarvam_text, seconds),
            yielded |-> Len(frames)])
    /\ UNCHANGED sarvam_text
    /\ UNCHANGED notU

\* the audio payloads of the consumed synthesis: the byte values have no
\* part in what get_message_up_to does
ConsumePayloads == {BRepeat(0, n) : n \in 1..MaxBytes}

\* one fragment has been sent on a context and a Sarvam result exists for
\* the same text; no timestamp has arrived yet
ConsumeInit ==
    /\ TruncateInit
    /\ ctx_message = MessageOf(<< <<"a">> >>)
    /\ ctx_timestamps = <<>>
    /\ sarvam_text = Join(<< <<"a">> >>)

ConsumeNext ==
    \/ \E synth \in {"cartesia", "sarvam"}, enc \in Encodings,
          size \in 1..MaxChunkSize, silence \in BOOLEAN :
              CreateSpeech(synth, enc, size, silence)
    \/ \E done \in BOOLEAN : GenStart(done)
    \/ \E audio \in ConsumePayloads : RecvChunk(audio, MaxBytes)
    \/ YieldFrame
    \/ \E word \in Words, duration \in Durations :
          RecvTimestamps(word, duration)
    \/ RecvNothing
    \/ RecvError
    \/ \E cause \in {"done", "exception"} : RecvEnds(cause)
    \/ SarvamSilence
    \/ SarvamNoAudio
    \/ \E audio \in ConsumePayloads \cup {<<>>} : SarvamAudio(audio)
    \/ SarvamYield
    \/ GetMessageUpTo(TicksPerSecond)

\* a synthesis whose result is asked for its cutoff while it is consumed
SpecConsume == ConsumeInit /\ [][ConsumeNext]_vars

\* C1: over one run of _run_loop at most NUM_RESTARTS calls of
\* _process_audio are made, whatever mix of clean closes and exceptions ends
\* them, and the counter is never reset: it always equals the number of
\* attempts that have ended.
C1_AttemptsBounded ==
    /\ attempts <= NUM_RESTARTS
    /\ restarts = IF rl_pc \in {"connect", "gather"} THEN attempts - 1
                  ELSE attempts

\* the bound is used up by a stream that connected and produced a
\* Transcription on the way
C1_Witness ==
    /\ rl_pc = "end"
    /\ ~ended
    /\ attempts = NUM_RESTARTS
    /\ output_queue # <<>>

\* C2: once the receive duty has observed a rate-limit close (code 1003,
\* reason with "Rate limit exceeded"), no further connection attempt is
\* started for the stream.
C2_NoAttemptAfterRateLimit == [][rate_limited => attempts' = attempts]_vars

\* the loop has ended on a rate-limit close after a single attempt
C2_Witness ==
    /\ rate_limited
    /\ rl_pc = "end"
    /\ attempts = 1

\* C3: for a Sarvam config (with an API key), create_transcriber returns
\* the Deepgram fallback whenever the primary is found unhealthy, and
\* returns a SarvamTranscriber whenever the probe of that call reports
\* healthy, whatever the verdicts of the earlier calls were.
C3_FailoverAndRecovery ==
    \A i \in 1..Len(f_calls) :
        /\ ~f_calls[i].healthy => f_calls[i].result = "DeepgramTranscriber"
        /\ f_calls[i].verdict = "False" => ~f_calls[i].healthy
        /\ (f_calls[i].verdict = "True" /\ f_calls[i].key)
               => f_calls[i].result = "SarvamTranscriber"

\* a call that fell back on an unhealthy verdict is followed by a call that
\* finds the provider healthy and returns the primary
C3_Witness ==
    /\ Len(f_calls) >= 2
    /\ f_calls[1].verdict = "False"
    /\ f_calls[1].result = "DeepgramTranscriber"
    /\ f_calls[2].verdict = "True"
    /\ f_calls[2].result = "SarvamTranscriber"

\* C4: the probe returns unhealthy on an explicit error event, healthy
\* when nothing arrives before the timeout, unhealthy when connecting or
\* sending fails, and in every case returns a boolean, never an exception.
C4_ProbeVerdict ==
    \A i \in 1..Len(f_calls) :
        f_calls[i].outcome # "not_run" =>
            /\ f_calls[i].verdict \in {"True", "False"}
            /\ f_calls[i].outcome = "error_event"
                   => f_calls[i].verdict = "False"
            /\ f_calls[i].outcome = "timeout" => f_calls[i].verdict = "True"
            /\ f_calls[i].outcome \in {"connect_failed", "send_failed"}
                   => f_calls[i].verdict = "False"

\* one probe has seen an error event, another has timed out, a third case
\* is covered by a failed send
C4_Witness ==
    /\ Len(f_calls) >= 2
    /\ f_calls[1].outcome = "error_event"
    /\ f_calls[2].outcome \in {"timeout", "send_failed"}

\* the place in a context's log of the fragment sent by call k (0 if none)
C5_SendPos(log, k) ==
    IF \E p \in 1..Len(log) : log[p].kind = "send" /\ log[p].call = k
    THEN CHOOSE p \in 1..Len(log) : log[p].kind = "send" /\ log[p].call = k
    ELSE 0

\* call i was sent with is_sole_text_chunk=false and call i+1 is a
\* continuation (is_first_text_chunk=false) that arrived while the context
\* was still open and the grace timer was still pending; the timer has not
\* fired since the fragment of call i was sent
C5_Scenario(i) ==
    /\ i + 1 <= Len(c_results)
    /\ ~c_results[i].sole
    /\ ~c_results[i].timer_fired
    /\ ~c_results[i + 1].first
    /\ c_results[i + 1].ctx_open
    /\ c_results[i + 1].timer_at_send = "sleeping"

\* C5: a fragment sent with is_sole_text_chunk=false and followed, before
\* the grace timer fires, by a fragment with is_first_text_chunk=false: the
\* second is sent on the same context, no "no more inputs" lies between the
\* two sends, and the text truncate_at works on when the second call
\* returns is the first call's text followed by the second transcript.
C5_SecondFragmentAppends ==
    \A i \in 1..Len(c_results) :
        C5_Scenario(i) =>
            LET r1 == c_results[i]
                r2 == c_results[i + 1]
                log == c_ctxs[r1.ctx].log
            IN  /\ r2.ctx = r1.ctx
                /\ C5_SendPos(log, i) > 0
                /\ C5_SendPos(log, i + 1) = C5_SendPos(log, i) + 1
                /\ r2.message = r1.message \o Transcript(r2.text)

\* the scenario has happened with two different fragments
C5_Witness ==
    /\ C5_Scenario(1)
    /\ c_results[1].text = <<"a">>
    /\ c_results[2].text = <<"b", " ">>
    /\ c_results[2].message = <<"a", " ", "b", " ">>

\* text a is a prefix of text b
C6_IsPrefix(a, b) == Len(a) <= Len(b) /\ SubSeq(b, 1, Len(a)) = a

\* C6: truncate_at is monotonic non-decreasing: of two evaluations made on
\* the same result, the one for the smaller elapsed time returns a prefix
\* of what the one for the larger elapsed time returns.
C6_TruncateMonotonic ==
    \A i, j \in 1..Len(cutoffs) :
        (/\ cutoffs[i].synthesizer = cutoffs[j].synthesizer
         /\ cutoffs[i].seconds <= cutoffs[j].seconds)
            => C6_IsPrefix(cutoffs[i].text, cutoffs[j].text)

\* three words were sent, the provider has stamped the first two, the first
\* one ending after 2.5 s: at 2 s the estimate returns all three words, at
\* 3 s the timestamps return two
C6_Witness ==
    /\ ctx_message = <<"a", " ", "b", "c", " ", "a", " ">>
    /\ Len(ctx_timestamps) = 2
    /\ ctx_timestamps[1].end = 5
    /\ ctx_timestamps[2].end = 6
    /\ cutoffs = << [synthesizer |-> "cartesia", seconds |-> 4,
                      text |-> <<"a", " ", "b", "c", " ", "a">>],
                    [synthesizer |-> "cartesia", seconds |-> 6,
                      text |-> <<"a", " ", "b", "c">>] >>

\* C7: truncate_at returns the empty text for every elapsed time that is
\* zero or negative, for the results of both synthesizers.
C7_EmptyAtOrBeforeZero ==
    \A i \in 1..Len(cutoffs) :
        cutoffs[i].seconds <= 0 => cutoffs[i].text = <<>>

\* the Sarvam result of a spoken text was asked about elapsed time 0 and
\* returned the text
C7_Witness ==
    /\ sarvam_text = <<"b", "c">>
    /\ cutoffs = << [synthesizer |-> "sarvam", seconds |-> 0,
                      text |-> <<"b", "c">>] >>

\* the bytes of the frames, in order
RECURSIVE C8_Concat(_)
C8_Concat(fs) ==
    IF fs = <<>> THEN <<>> ELSE BCat(Head(fs).chunk, C8_Concat(Tail(fs)))

\* the bytes the final frame was padded with
C8_Padding ==
    IF frames = <<>> THEN <<>>
    ELSE LET chunk == frames[Len(frames)].chunk
         IN  BDrop(chunk, BLen(chunk) - frames[Len(frames)].padding_size)

\* the bytes of the frames without the padding of the final frame
C8_Unpadded ==
    BTake(C8_Concat(frames), BLen(C8_Concat(frames)) - BLen(C8_Padding))

\* C8: the frames yielded, with the padding of the final frame removed, are
\* the received audio bytes in arrival order: while the generator runs the
\* frames followed by what is still buffered (Cartesia), or the frames alone
\* up to the loop index (Sarvam), are the bytes received so far; when it has
\* ended nothing is lost, duplicated or reordered.  Only the final frame is
\* padded, and only with the silence value of the encoding.
C8_FramesPreserveBytes ==
    /\ gen_pc \in {"receive", "yield"}
           => BCat(C8_Concat(frames), buffer) = received
    /\ gen_pc = "loop" => C8_Concat(frames) = BTake(received, loop_i)
    /\ gen_pc = "ended" => C8_Unpadded = received
    /\ \A k \in 1..Len(frames) :
          frames[k].padding_size > 0 => k = Len(frames) /\ gen_pc = "ended"
    /\ BLen(C8_Padding) = (IF frames = <<>> THEN 0
                           ELSE frames[Len(frames)].padding_size)
    /\ C8_Padding = Silence(encoding, BLen(C8_Padding))

\* a Cartesia synthesis has ended after three frames, the last one padded,
\* having received both byte values
C8_Witness ==
    /\ gen_synth = "cartesia"
    /\ gen_pc = "ended"
    /\ Len(frames) = 3
    /\ frames[3].padding_size > 0
    /\ Len(received) > 1

\* C9 as stated: 20 chunks of 3200 bytes into 4096-byte frames end in 16
\* frames, the last one padded with 3,776 bytes.
C9_AsStated ==
    (gen_pc = "ended" /\ BLen(received) = ScenarioChunks * ScenarioChunkBytes)
        => /\ Len(frames) = 16
           /\ frames[16].padding_size = 3776

\* C9: 20 chunks of 3200 bytes of silence into 4096-byte frames yield 15
\* full frames of 4096 bytes and a final frame of 4096 bytes that holds the
\* remaining 2,560 bytes and 1,536 bytes of padding with the silence value,
\* 16 frames in all.
C9_ScenarioFrames ==
    (gen_pc = "ended" /\ BLen(received) = ScenarioChunks * ScenarioChunkBytes)
        => /\ Len(frames) = 16
           /\ \A k \in 1..15 :
                 /\ BLen(frames[k].chunk) = ScenarioFrameSize
                 /\ ~frames[k].is_last_chunk
                 /\ frames[k].padding_size = 0
           /\ BLen(frames[16].chunk) = ScenarioFrameSize
           /\ frames[16].is_last_chunk
           /\ frames[16].padding_size = 1536
           /\ BDrop(frames[16].chunk, 2560) = Silence(encoding, 1536)

\* all 20 chunks were pushed and the generator has ended
C9_Witness ==
    /\ gen_pc = "ended"
    /\ BLen(received) = ScenarioChunks * ScenarioChunkBytes
    /\ Len(frames) = 16
    /\ encoding = "pcm_s16le"

\* C10 as stated: the final frame of a Cartesia synthesis is exactly
\* chunk_size bytes for every total of received bytes.
C10_AsStated ==
    (gen_synth = "cartesia" /\ gen_pc = "ended")
        => BLen(frames[Len(frames)].chunk) = chunk_size

\* C10: in the Cartesia frame sequence every frame before the final one is
\* exactly chunk_size bytes; the final frame, the only one marked
\* is_last_chunk, is exactly chunk_size bytes, padded with 0xFF for mu-law
\* and 0x00 for linear PCM, when the received total is not a multiple of
\* chunk_size, and is the empty frame when the total is a multiple of
\* chunk_size or zero; a generator that finds the context done at its start
\* yields no frame at all.
C10_FrameSizes ==
    gen_synth = "cartesia" =>
        /\ \A k \in 1..Len(frames) :
              IF frames[k].is_last_chunk
              THEN k = Len(frames) /\ gen_pc = "ended"
              ELSE BLen(frames[k].chunk) = chunk_size
        /\ gen_pc = "skipped" => frames = <<>>
        /\ gen_pc = "ended" =>
              /\ frames # <<>>
              /\ LET last == frames[Len(frames)]
                     left == BLen(received) % chunk_size
                 IN  /\ last.is_last_chunk
                     /\ IF left = 0
                        THEN last.chunk = <<>>
                        ELSE /\ BLen(last.chunk) = chunk_size
                             /\ BDrop(last.chunk, left)
                                    = Silence(encoding, chunk_size - left)

\* a synthesis that received twice chunk_size bytes has ended with two full
\* frames and the empty final frame
C10_Witness ==
    /\ gen_synth = "cartesia"
    /\ gen_pc = "ended"
    /\ chunk_size = 2
    /\ BLen(received) = 4
    /\ Len(frames) = 3
    /\ frames[3].chunk = <<>>

\* C11: in the frame sequence of either synthesizer only the final frame is
\* marked is_last_chunk, and a sequence that has been consumed to its end
\* and has yielded a frame ends with a marked frame.
C11_OnlyLastFrameMarked ==
    /\ \A k \in 1..Len(frames) :
          frames[k].is_last_chunk
              => k = Len(frames) /\ gen_pc = "ended"
    /\ (gen_pc \in {"ended", "skipped"} /\ frames # <<>>)
          => frames[Len(frames)].is_last_chunk

\* a Sarvam synthesis whose audio is a whole number of slices has ended
\* after two frames
C11_Witness ==
    /\ gen_synth = "sarvam"
    /\ gen_pc = "ended"
    /\ chunk_size = 2
    /\ BLen(received) = 4
    /\ Len(frames) = 2
    /\ frames[2].is_last_chunk

\* ---------------------------------------------------------------------------
\* C12.  A synthesis that fails part-way (an exception while receiving, a
\* provider error event, a failed Sarvam request) ends the frame sequence
\* cleanly: no exception reaches the consumer, the sequence has terminated
\* once the failure has happened, and what Cartesia had buffered is in the
\* final frame.

\* the part that the code keeps: an exception raised by receive() is caught
\* and the buffer is flushed as the last frame; a failed Sarvam request ends
\* the sequence without a frame
C12_ExceptionFlushes ==
    /\ gen_pc # "raised"
    /\ gen_failure = "exception" =>
          /\ gen_pc = "ended"
          /\ frames # <<>>
          /\ frames[Len(frames)].is_last_chunk
          /\ C8_Unpadded = received
    /\ gen_failure = "request" => gen_pc = "skipped" /\ frames = <<>>

C12_FailureEndsSequence ==
    /\ gen_pc # "raised"
    /\ gen_failure # "none" =>
          /\ gen_pc \in {"ended", "skipped"}
          /\ gen_synth = "cartesia" =>
                /\ frames # <<>>
                /\ frames[Len(frames)].is_last_chunk

\* an error event has arrived while bytes were buffered, and the generator
\* is still reading
C12_Witness ==
    /\ gen_synth = "cartesia"
    /\ gen_failure = "error_event"
    /\ gen_pc = "receive"
    /\ buffer # <<>>
    /\ frames = <<>>

\* ---------------------------------------------------------------------------
\* C13.  For either synthesizer, synthesizing a silence-marker text yields an
\* empty frame sequence and nothing is sent to the provider for that call.

\* the Sarvam half, which the code keeps: the generator returns before the
\* request is made and yields no frame
C13_SarvamSkipsSilence ==
    (gen_synth = "sarvam" /\ gen_silence) =>
        /\ gen_sent = 0
        /\ frames = <<>>
        /\ gen_pc \in {"start", "skipped"}

C13_SilenceNotSent ==
    (gen_pc # "idle" /\ gen_silence) => gen_sent = 0 /\ frames = <<>>

\* a Cartesia synthesis of a silence token has sent its transcript and has
\* ended with a frame
C13_Witness ==
    /\ gen_synth = "cartesia"
    /\ gen_silence
    /\ gen_sent = 1
    /\ gen_pc = "ended"
    /\ frames # <<>>

\* ---------------------------------------------------------------------------
\* C14.  SarvamTranscriber.terminate() is idempotent and closes the wire
\* connection; after it, from whatever state it was called in, both duties
\* (and a receive duty left behind by an earlier attempt) eventually exit,
\* the connection ends closed, and no new attempt is started.

\* both duties have exited and no connection is open
C14_Quiet ==
    /\ send_pc = "off"
    /\ recv_pc = "off"
    /\ orphans = {}
    /\ ws_connection # "open"

\* the state terminate() leaves: _ended is set by terminate() and by the
\* rate-limit branch only, and is_ready is cleared by terminate() only, so
\* terminate() has been called since the last connect
C14_Terminated == ended /\ ~is_ready

C14_TerminateStops ==
    /\ [](TerminateState(TerminateState(TerminateFields))
              = TerminateState(TerminateFields))
    /\ [][Terminate => ws_connection' # "open"]_vars
    /\ [][ended => attempts' = attempts]_vars
    /\ [][Terminate => C14_Terminated']_vars
    /\ [](C14_Terminated => <>[]C14_Quiet)

\* terminate() was called while a connection was open and audio had been
\* written on it; the duties have exited and the loop has ended after that
\* one attempt
C14_Witness ==
    /\ ended
    /\ ~rate_limited
    /\ rl_pc = "end"
    /\ ws_close = LocalClose
    /\ attempts = 1
    /\ wire # <<>>
    /\ C14_Quiet

\* ---------------------------------------------------------------------------
\* C15.  Transcriptions are delivered in the order their messages are
\* received, none reordered, lost or duplicated, also across reconnects: the
\* k-th entry of the output queue is the k-th text the provider has sent,
\* the connections of the entries never go backwards, and a step either
\* leaves the queue alone or puts one Transcription at its tail.
C15_DeliveredInOrder ==
    /\ [](\A k \in 1..Len(output_queue) : output_queue[k].message[2] = k)
    /\ [](\A i, j \in 1..Len(output_queue) :
              i <= j => output_queue[i].message[1] <= output_queue[j].message[1])
    /\ [][\/ output_queue' = output_queue
          \/ /\ Len(output_queue') = Len(output_queue) + 1
             /\ SubSeq(output_queue', 1, Len(output_queue)) = output_queue]_vars

\* a final Transcription received on the first connection is followed by a
\* partial one received on the second
C15_Witness ==
    /\ Len(output_queue) = 2
    /\ output_queue[1] = [message |-> <<1, 1>>, is_final |-> TRUE]
    /\ output_queue[2] = [message |-> <<2, 2>>, is_final |-> FALSE]

\* ---------------------------------------------------------------------------
\* C16.  A health verdict is cached with its timestamp: a selection made
\* while the verdict of the call before is younger than five minutes uses
\* that verdict without a new probe; a probe is made only when there is no
\* verdict or it is older than five minutes.
C16_FreshVerdictReused ==
    \A i \in 2..Len(f_calls) :
        (f_calls[i - 1].verdict # "none" /\ f_calls[i].age = "fresh") =>
            /\ f_calls[i].outcome = "not_run"
            /\ f_calls[i].healthy = f_calls[i - 1].healthy

\* a call made while the verdict of the call before was fresh has probed
\* again and has come to the opposite verdict
C16_Witness ==
    /\ Len(f_calls) = 2
    /\ f_calls[1].verdict = "False"
    /\ f_calls[2].age = "fresh"
    /\ ~f_calls[2].loop
    /\ f_calls[2].outcome = "timeout"
    /\ f_calls[2].verdict = "True"
    /\ f_calls[2].result = "SarvamTranscriber"

\* ---------------------------------------------------------------------------
\* C17.  get_message_up_to never blocks and never consumes or advances the
\* frame sequence: it can be evaluated at every position of the generator
\* (before, during and after consumption), and an evaluation leaves the
\* generator, its buffer, the frames and the synthesizer's context exactly
\* as they were, so the frames yielded afterwards are those that would have
\* been yielded without it.
C17_TruncateLeavesFrames ==
    /\ []((gen_pc # "idle" /\ Len(cutoffs) < MaxCutoffs)
              => ENABLED GetMessageUpTo(TicksPerSecond))
    /\ [][cutoffs' # cutoffs => UNCHANGED <<gvars, cvars>>]_vars

\* the function was evaluated before the first frame and again between two
\* frames, and the generator has gone on to its last frame
C17_Witness ==
    /\ Len(cutoffs) = 2
    /\ cutoffs[1].yielded = 0
    /\ cutoffs[2].yielded = 1
    /\ gen_pc = "ended"
    /\ Len(frames) = 3

\* ---------------------------------------------------------------------------
\* C18.  When no API key is available, that is reported as an error at
\* construction time, before any connection to the provider is opened, on
\* every construction path, create_transcriber for a Sarvam config
\* included: such a call ends with the ValueError and has not run the probe.
C18_MissingKeyReportedAtSetup ==
    \A i \in 1..Len(f_calls) :
        ~f_calls[i].key =>
            /\ f_calls[i].result = "ValueError"
            /\ f_calls[i].outcome = "not_run"

\* without a key, one call has connected, sent its burst and waited before
\* the ValueError was raised, and another has returned the Deepgram
\* fallback with no error at all
C18_Witness ==
    /\ Len(f_calls) = 2
    /\ ~f_calls[1].key
    /\ f_calls[1].outcome = "timeout"
    /\ f_calls[1].result = "ValueError"
    /\ ~f_calls[2].key
    /\ f_calls[2].outcome = "connect_failed"
    /\ f_calls[2].result = "DeepgramTranscriber"

\* ---------------------------------------------------------------------------
\* C19.  When the attempt bound is exhausted, _run_loop ends and the failure
\* is contained: with NUM_RESTARTS attempts ended no attempt is running or
\* started, the loop comes to its end (no exception leaves it: every
\* position of the loop is one of those below) and reports the stream as
\* failed, and after that no attempt is made and no frame is written.
C19_ExhaustedLoopEnds ==
    /\ [](rl_pc \in {"idle", "while", "connect", "gather", "sleep", "end"})
    /\ [](restarts >= NUM_RESTARTS =>
              /\ rl_pc \in {"while", "sleep", "end"}
              /\ send_pc = "off")
    /\ [](restarts >= NUM_RESTARTS => <>[]StreamReportedFailed)
    /\ [][rl_pc = "end" =>
              /\ rl_pc' = "end"
              /\ attempts' = attempts
              /\ wire' = wire]_vars

\* the loop has ended after NUM_RESTARTS attempts without terminate() or a
\* rate limit; frames were written on the last connection
C19_Witness ==
    /\ rl_pc = "end"
    /\ ~ended
    /\ restarts = NUM_RESTARTS
    /\ attempts = NUM_RESTARTS
    /\ wire # <<>>
    /\ StreamReportedFailed

\* ---------------------------------------------------------------------------
\* C20.  The Deepgram fallback configuration built for a Sarvam
\* configuration carries the same sampling_rate, audio_encoding, chunk_size,
\* endpointing_config, downsampling, min_interrupt_confidence and
\* mute_during_speech as the Sarvam configuration.
C20_FallbackKeepsAudioContract ==
    deepgram_config # NoConfig =>
        /\ deepgram_config.sampling_rate = sarvam_config.sampling_rate
        /\ deepgram_config.audio_encoding = sarvam_config.audio_encoding
        /\ deepgram_config.chunk_size = sarvam_config.chunk_size
        /\ deepgram_config.endpointing_config
               = sarvam_config.endpointing_config
        /\ deepgram_config.downsampling = sarvam_config.downsampling
        /\ deepgram_config.min_interrupt_confidence
               = sarvam_config.min_interrupt_confidence
        /\ deepgram_config.mute_during_speech
               = sarvam_config.mute_during_speech

\* a fallback built for a config in which every optional field is set and
\* the language has a region code, which is the one thing that changes
C20_Witness ==
    /\ deepgram_config # NoConfig
    /\ sarvam_config.chunk_size = 4096
    /\ sarvam_config.sampling_rate = 16000
    /\ sarvam_config.endpointing_config = "punctuation_based"
    /\ sarvam_config.downsampling = 2
    /\ sarvam_config.min_interrupt_confidence = "0.5"
    /\ sarvam_config.mute_during_speech
    /\ sarvam_config.language = <<"t", "a", "-", "I", "N">>
    /\ deepgram_config.language = <<"t", "a">>
    /\ deepgram_config.model = "nova-2"

\* ---------------------------------------------------------------------------
\* C21.  A malformed audio frame pulled by the send duty is fatal for that
\* frame only: it is dropped and the send duty keeps running, so on an open
\* connection of a stream that is not ended (and is fed no None sentinel)
\* the send duty has never left its loop, and a well-formed frame that
\* follows is written on the same connection.
C21_MalformedFrameDropped ==
    (rl_pc = "gather" /\ ws_connection = "open" /\ ~ended)
        => send_pc \in {"top", "get"}

\* the send duty has left its loop on the first chunk, a malformed one,
\* while the connection is open and the stream not ended; the well-formed
\* chunk fed after it waits in the queue and nothing was written
C21_Witness ==
    /\ rl_pc = "gather"
    /\ ws_connection = "open"
    /\ ~ended
    /\ send_pc = "done"
    /\ fed = 2
    /\ input_queue = <<"good">>
    /\ ratecv_state = 0
    /\ wire = <<>>

\* ---------------------------------------------------------------------------
\* C22.  After tear_down has completed no grace timer is pending, no "no
\* more inputs" is written afterwards, and the provider connection, if one
\* was opened, is closed.
C22_TornDownQuiet ==
    c_down.torn =>
        /\ PendingTimers(c_timer, c_old) = {}
        /\ ~c_down.late
        /\ c_ws => c_down.closed

\* the same, for a tear_down that ran while no create_speech_uncached call
\* was suspended in ctx.send
C22_QuietWithoutCallInFlight ==
    (c_down.torn /\ ~c_down.in_flight) => C22_TornDownQuiet

\* tear_down ran while a call for a fragment that is not the sole one was
\* suspended in ctx.send; the call has returned afterwards and its timer is
\* pending
C22_Witness ==
    /\ c_down.torn
    /\ c_down.in_flight
    /\ c_call = NoCall
    /\ Len(c_results) = 1
    /\ ~c_results[1].sole
    /\ c_timer = "sleeping"

\* ---------------------------------------------------------------------------
\* C23.  While the stream is not ended and the restart counter is below the
\* bound, every attempt that ends is followed by a new attempt.  An attempt
\* whose two duties have returned raises the counter by one and is followed
\* by the next test of the loop condition, without backoff; an attempt that
\* raised (the connect failed, or the send duty raised) raises the counter
\* by one and goes through the backoff, and no attempt starts during it.
C23_AttemptEnds ==
    /\ rl_pc \in {"connect", "gather"}
    /\ rl_pc' \in {"while", "sleep"}

C23_AttemptReturned ==
    rl_pc = "gather" /\ send_pc = "done" /\ recv_pc = "done"

C23_CanRetry == ~ended /\ restarts < NUM_RESTARTS

C23_RetryAfterAttempt ==
    /\ [][C23_AttemptEnds =>
            /\ restarts' = restarts + 1
            /\ (rl_pc' = "while") = C23_AttemptReturned]_vars
    /\ [][(attempts' # attempts) =>
            rl_pc = "while" /\ rl_pc' = "connect"]_vars
    /\ [][(rl_pc = "sleep") => rl_pc' \in {"sleep", "while"}]_vars
    /\ ((rl_pc \in {"while", "sleep"} /\ restarts > 0 /\ C23_CanRetry)
            ~> (rl_pc = "connect" \/ ended))

\* the claim as stated: an attempt that ends after a clean close by the
\* provider is followed by the next attempt without backoff
C23_CleanCloseWithoutBackoff ==
    [][(/\ C23_AttemptEnds
        /\ ws_connection = "closed"
        /\ IsClosedOK(ws_close)
        /\ ~ws_close.local) => rl_pc' = "while"]_vars

\* two attempts have ended, the counter was raised for each, the stream is
\* not ended and the third attempt is being made
C23_Witness ==
    /\ rl_pc = "connect"
    /\ attempts = 3
    /\ restarts = 2
    /\ ~ended

\* ---------------------------------------------------------------------------
\* C24.  Whenever the pull of the send duty times out, the duty writes
\* exactly one frame of 640 zero bytes and goes back to pulling, provided
\* the connection is open; when a chunk was available the step of the duty
\* writes no silence frame; a heartbeat write that fails on a closed
\* connection leaves the duty by an exception, which ends the attempt: the
\* duty does not go back to its loop.
C24_DutyLeavesPull == send_pc = "get" /\ send_pc' # "get"

C24_IsSilence(frame) ==
    /\ frame.kind = "silence"
    /\ Len(frame.bytes) = 1
    /\ frame.bytes[1].byte = 0
    /\ frame.bytes[1].count = 640

C24_HeartbeatOnTimeout ==
    /\ [][(C24_DutyLeavesPull /\ input_queue = <<>>
              /\ ws_connection = "open") =>
            /\ send_pc' = "top"
            /\ Len(wire) < MaxWire =>
                  /\ Len(wire') = Len(wire) + 1
                  /\ SubSeq(wire', 1, Len(wire)) = wire
                  /\ C24_IsSilence(wire'[Len(wire')])]_vars
    /\ [][(C24_DutyLeavesPull /\ input_queue # <<>>) =>
            \/ wire' = wire
            \/ /\ Len(wire') = Len(wire) + 1
               /\ SubSeq(wire', 1, Len(wire)) = wire
               /\ wire'[Len(wire')].kind = "audio"]_vars
    /\ [][(C24_DutyLeavesPull /\ input_queue = <<>>
              /\ ws_connection # "open") =>
            send_pc' = "raised" /\ wire' = wire]_vars
    /\ [][(send_pc = "raised") =>
            /\ rl_pc = "gather"
            /\ send_pc' \in {"raised", "off"}
            /\ wire' = wire
            /\ send_pc' = "off" => rl_pc' = "sleep"]_vars
    /\ ((send_pc = "raised") ~> (send_pc = "off"))

\* two pulls have timed out on an open connection of a stream that is not
\* ended: two silence frames are on the connection and the duty pulls again
C24_Witness ==
    /\ ~ended
    /\ ws_connection = "open"
    /\ send_pc = "get"
    /\ wire = <<HeartbeatFrame, HeartbeatFrame>>

\* ---------------------------------------------------------------------------
\* C25.  What the receive duty delivers for a message depends on its type
\* and text only: "connected" gives nothing; "partial" and
\* "partial_transcript" with a text give exactly one Transcription of that
\* text with is_final false; "transcript" and "final_transcript" with a
\* text give exactly one with is_final true; "error", an unknown type and
\* a message without text give nothing.
C25_Expected(m) ==
    IF m.text = NoText THEN <<>>
    ELSE IF m.type = "partial" \/ m.type = "partial_transcript"
         THEN <<[message |-> m.text, is_final |-> FALSE]>>
    ELSE IF m.type = "transcript" \/ m.type = "final_transcript"
         THEN <<[message |-> m.text, is_final |-> TRUE]>>
    ELSE <<>>

C25_MessageMapping ==
    [][\A m \in ReceiveMessages :
          RecvMessage(m) =>
              output_queue' = output_queue \o C25_Expected(m)]_vars

\* a partial and then a final message with a text have been received on
\* the first connection: one Transcription each, in that order
C25_Witness ==
    /\ attempts = 1
    /\ recv_pc = "top"
    /\ Len(output_queue) = 2
    /\ ~output_queue[1].is_final
    /\ output_queue[2].is_final

\* ---------------------------------------------------------------------------
\* C26.  An "error" event of the provider does not end the connection: the
\* receive duty logs it and goes back to reading, the connection stays
\* open, the restart counter and the position of _run_loop are unchanged and
\* nothing is delivered; partial and final messages that arrive on the same
\* connection afterwards are delivered as Transcriptions.
C26_Transcripts ==
    {m \in ReceiveMessages :
        /\ m.text # NoText
        /\ m.type \in {"partial", "partial_transcript", "transcript",
                        "final_transcript"}}

C26_ErrorEventKeepsConnection ==
    /\ [][\A m \in ReceiveMessages :
            (m.type = "error" /\ RecvMessage(m)) =>
                /\ recv_pc' = "top"
                /\ recv_log'.errors > 0
                /\ UNCHANGED <<rl_pc, restarts, attempts, ended, is_ready,
                               ws_connection, ws_close, send_pc,
                               output_queue>>]_vars
    /\ [][\A m \in C26_Transcripts :
            (recv_log.errors > 0 /\ RecvMessage(m)) =>
                /\ Len(output_queue') = Len(output_queue) + 1
                /\ output_queue'[Len(output_queue')].message = m.text]_vars
    /\ [](( /\ recv_log.errors > 0
            /\ recv_pc = "recv"
            /\ ws_connection = "open"
            /\ Len(output_queue) < MaxMsgs)
            => \A m \in C26_Transcripts : ENABLED RecvMessage(m))

\* on the first connection, which is still open, a Transcription has been
\* delivered whose text was sent after an error event of that connection
C26_Witness ==
    /\ attempts = 1
    /\ restarts = 0
    /\ ws_connection = "open"
    /\ recv_pc = "top"
    /\ recv_log.errors = 1
    /\ output_queue # <<>>
    /\ output_queue[Len(output_queue)].message = <<1>>

\* ---------------------------------------------------------------------------
\* C27.  The resampler state is threaded through the frames: the state
\* passed to each resample call is the one the previous call returned, None
\* for the first frame only, also on a later connection.  With well-formed
\* chunks only, the state is at every moment the one reached by resampling
\* all chunks pulled so far, in a row; it changes only when a chunk is
\* pulled, and then to the state that follows it.
C27_ResamplerStateThreaded ==
    /\ [](ratecv_state = fed - Len(input_queue))
    /\ [][(ratecv_state' # ratecv_state) =>
            /\ send_pc = "get"
            /\ input_queue # <<>>
            /\ input_queue' = Tail(input_queue)
            /\ ratecv_state' = ratecv_state + 1]_vars

\* the second frame has been resampled and written on the second
\* connection, with the state the first frame left on the first connection
C27_Witness ==
    /\ attempts = 2
    /\ ws_connection = "open"
    /\ ratecv_state = 2
    /\ wire = <<AudioFrame>>
    /\ input_queue = <<>>

\* ---------------------------------------------------------------------------
\* C28.  The health probe always terminates with a verdict, whatever the
\* provider does: a probe that was started comes to its end, also when the
\* provider never sends a message and never closes the connection, and when
\* it ends the call has a verdict of True or False.
C28_ProbeTerminates ==
    /\ \A n \in 0..MaxCalls :
          (f_pc # "idle" /\ Len(f_calls) = n)
              ~> (f_pc = "idle" /\ Len(f_calls) = n + 1)
    /\ [][(f_pc # "idle" /\ f_pc' = "idle") =>
            /\ Len(f_calls') = Len(f_calls) + 1
            /\ f_calls'[Len(f_calls')].verdict \in {"True", "False"}]_vars

\* a probe whose connection was accepted and whose provider stayed silent
\* has ended on the timeout of its read
C28_Witness ==
    /\ f_pc = "idle"
    /\ Len(f_calls) = 1
    /\ f_calls[1].outcome = "timeout"
    /\ f_calls[1].verdict = "True"

\* ---------------------------------------------------------------------------
\* C29.  At most one grace timer is pending at any time: the only task that
\* can be in its sleep is the one self.no_more_inputs_task refers to, every
\* task it referred to before was cancelled (or had fired) when the new one
\* was started; and a cancelled task never writes "no more inputs": the
\* write is made by a task that was sleeping until then, and a cancelled
\* task stays cancelled until the attribute is given a new task.
C29_TimerWrites ==
    /\ c_ctxs' # c_ctxs
    /\ UNCHANGED <<c_ctx, c_call, c_results>>
    /\ Len(c_ctxs') = Len(c_ctxs)
    /\ \E ctx \in 1..Len(c_ctxs) :
          c_ctxs'[ctx].log # c_ctxs[ctx].log

C29_OneTimerPending ==
    /\ []("sleeping" \notin c_old)
    /\ [][C29_TimerWrites => (c_timer = "sleeping" /\ c_timer' = "done")]_vars
    /\ [][(c_timer = "cancelled") =>
            c_timer' \in {"cancelled", "sleeping"}]_vars
    /\ [][(c_timer = "cancelled" /\ c_timer' = "sleeping") =>
            /\ c_call # NoCall
            /\ c_call' = NoCall
            /\ "cancelled" \in c_old']_vars

\* a second fragment has arrived while the timer of the first was in its
\* sleep: that timer was cancelled and the timer of the second is pending
C29_Witness ==
    /\ Len(c_results) = 2
    /\ c_results[2].timer_at_send = "sleeping"
    /\ ~c_results[2].timer_fired
    /\ c_old = {"cancelled"}
    /\ c_timer = "sleeping"

\* ---------------------------------------------------------------------------
\* C30.  Every context that has received a fragment is eventually closed
\* unless a further fragment arrives: at once, by continue_ = false, when
\* the fragment is the sole one, and otherwise by the "no more inputs" the
\* timer writes after the grace delay; no context stays open for ever.  A
\* context is closed if the provider has completed it or if the last thing
\* written on it is "no more inputs" or a fragment with continue_ = false.
C30_Closed(ctx) ==
    LET log == c_ctxs[ctx].log
        last == log[Len(log)]
    IN  \/ c_ctxs[ctx].completed
        \/ /\ log # <<>>
           /\ \/ last.kind = "no_more_inputs"
              \/ last.kind = "send" /\ ~last.continue

C30_EveryContextClosed ==
    /\ \A ctx \in 1..MaxSynth :
          (ctx <= Len(c_ctxs) /\ ~C30_Closed(ctx))
              ~> (ctx <= Len(c_ctxs) /\ C30_Closed(ctx))
    /\ [][(c_call = NoCall /\ c_call' # NoCall /\ c_call'.sole) =>
            LET log == c_ctxs'[c_ctx'].log
            IN  /\ log[Len(log)].kind = "send"
                /\ ~log[Len(log)].continue]_vars
    /\ <>[](\A ctx \in 1..Len(c_ctxs) : C30_Closed(ctx))

\* the timer of a fragment that was not the sole one has fired and has
\* written "no more inputs" on the context, which the provider has not
\* completed
C30_Witness ==
    /\ Len(c_results) = 1
    /\ ~c_results[1].sole
    /\ c_call = NoCall
    /\ c_timer = "done"
    /\ Len(c_ctxs) = 1
    /\ ~c_ctxs[1].completed
    /\ Len(c_ctxs[1].log) = 2
    /\ c_ctxs[1].log[2].kind = "no_more_inputs"

(***************************************************************************)
(* C31: the list truncate_at reads holds only timestamps of the current    *)
(* utterance context.                                                      *)
(***************************************************************************)
\* C31: at every moment every entry of ctx_timestamps was received on the
\* context self.ctx refers to, i.e. the current utterance; a generator of an
\* earlier utterance consumed later adds nothing to it.
C31_OnlyCurrentUtterance ==
    \A i \in 1..Len(ctx_timestamps) : ctx_timestamps[i].ctx = c_ctx

\* the generator of an earlier utterance is in its receive loop after a
\* later call has started a new utterance, and the list holds a timestamp
C31_Witness ==
    /\ \E r \in 1..Len(c_gens) :
          c_gens[r] = "receiving" /\ c_results[r].ctx # c_ctx
    /\ ctx_timestamps # <<>>

(***************************************************************************)
(* C32: the Sarvam synthesizer emits frames of chunk_size bytes.           *)
(***************************************************************************)
\* C32: every frame a Sarvam synthesis has emitted, except the last one, is
\* exactly chunk_size bytes long, also for a chunk_size above 4096.
C32_FramesOfChunkSize ==
    gen_synth = "sarvam" =>
        \A k \in 1..Len(frames) :
            ~frames[k].is_last_chunk => BLen(frames[k].chunk) = chunk_size

\* what the code does: the frames before the last are min(chunk_size, 4096)
\* bytes long
C32_FramesOfCappedSize ==
    gen_synth = "sarvam" =>
        \A k \in 1..Len(frames) :
            ~frames[k].is_last_chunk =>
                BLen(frames[k].chunk) = stream_chunk_size(chunk_size)

\* a synthesis asked for frames above 4096 bytes has emitted a frame that
\* is not the last
C32_Witness ==
    /\ gen_synth = "sarvam"
    /\ chunk_size > StreamChunkCap
    /\ Len(frames) > 1
    /\ ~frames[1].is_last_chunk

(***************************************************************************)
(* C33: a RuntimeError of the event loop does not decide the result.       *)
(***************************************************************************)
\* C33: the result of _create_sarvam_or_fallback depends on the provider's
\* health only: the Deepgram fallback is returned only by a call whose probe
\* found the provider unhealthy, with no event loop running and inside a
\* running event loop alike; a call whose probe could not be run because of
\* a RuntimeError does not return the fallback.
C33_FallbackOnlyWhenUnhealthy ==
    \A i \in 1..Len(f_calls) :
        f_calls[i].result = "DeepgramTranscriber" =>
            f_calls[i].verdict = "False"

\* with no event loop running the result follows the probe's verdict
C33_FollowsVerdictWithoutLoop ==
    \A i \in 1..Len(f_calls) :
        ~f_calls[i].loop =>
            /\ f_calls[i].verdict \in {"True", "False"}
            /\ f_calls[i].result = "DeepgramTranscriber"
                   <=> f_calls[i].verdict = "False"

\* a call made inside a running event loop has returned, and so has a call
\* made without one that found the provider healthy
C33_Witness ==
    \E i, j \in 1..Len(f_calls) :
        /\ f_calls[i].loop /\ f_calls[i].key
        /\ ~f_calls[j].loop /\ f_calls[j].key
        /\ f_calls[j].result = "SarvamTranscriber"

(***************************************************************************)
(* C34: the two duties of a connection attempt end together.               *)
(***************************************************************************)
\* one duty of the attempt in progress has left its loop
C34_OneDutyDead ==
    /\ rl_pc = "gather"
    /\ send_pc \in {"done", "raised"} \/ recv_pc = "done"

\* C34: within a connection attempt, once one of the two duties has exited,
\* for whatever reason, the other duty exits too and the attempt ends: the
\* attempt does not stay in its gather with one duty dead.
C34_DutiesEndTogether == C34_OneDutyDead ~> rl_pc # "gather"

\* the receive duty has left its loop while the connection is open and the
\* stream not ended, and the send duty is still in its loop
C34_Witness ==
    /\ rl_pc = "gather"
    /\ ws_connection = "open"
    /\ ~ended
    /\ recv_pc = "done"
    /\ send_pc \in {"top", "get"}
    /\ wire # <<>>

(***************************************************************************)
(* C35: truncate_at of a result refers to the result's own utterance.      *)
(***************************************************************************)
\* the text sent so far on context ctx by the calls that have returned
C35_UtteranceText(ctx) ==
    LET rs == {r \in 1..Len(c_results) : c_results[r].ctx = ctx}
    IN  IF rs = {} THEN <<>>
        ELSE c_results[CHOOSE r \in rs : \A q \in rs : q <= r].message

\* C35: at every moment truncate_at of every returned result works on the
\* text and on the timestamps of the utterance the result was created for,
\* also after a later call has started a new utterance.
C35_TruncateOwnUtterance ==
    \A r \in 1..Len(c_results) :
        /\ TruncateMessage(r) = C35_UtteranceText(c_results[r].ctx)
        /\ \A i \in 1..Len(TruncateTimestamps(r)) :
               TruncateTimestamps(r)[i].ctx = c_results[r].ctx

\* as long as no later call has started another utterance, truncate_at of
\* a result works on the text of the result's utterance
C35_OwnUtteranceWhileCurrent ==
    \A r \in 1..Len(c_results) :
        c_results[r].ctx = c_ctx =>
            TruncateMessage(r) = C35_UtteranceText(c_results[r].ctx)

\* two results of different utterances have been returned and a timestamp
\* of the later utterance has been received
C35_Witness ==
    /\ Len(c_results) >= 2
    /\ c_results[1].ctx # c_results[2].ctx
    /\ c_results[1].message # c_results[2].message
    /\ c_call = NoCall
    /\ ctx_timestamps # <<>>
    /\ ctx_timestamps[1].ctx = c_results[2].ctx

(***************************************************************************)
(* C36: no fragment on a context after its "no more inputs".               *)
(***************************************************************************)
\* C36: on every context, no text fragment is written after a "no more
\* inputs" was written on it, whatever the interleaving of a firing grace
\* timer with the create_speech_uncached calls.
C36_NoSendAfterNoMoreInputs ==
    \A ctx \in 1..Len(c_ctxs) :
        \A i, j \in 1..Len(c_ctxs[ctx].log) :
            i < j => ~ /\ c_ctxs[ctx].log[i].kind = "no_more_inputs"
                       /\ c_ctxs[ctx].log[j].kind = "send"

\* a fragment that starts a new utterance is never written on a context
\* that has a "no more inputs"
C36_FirstFragmentOnFreshContext ==
    \A ctx \in 1..Len(c_ctxs) :
        \A i, j \in 1..Len(c_ctxs[ctx].log) :
            (/\ i < j
             /\ c_ctxs[ctx].log[i].kind = "no_more_inputs"
             /\ c_ctxs[ctx].log[j].kind = "send")
                => LET n == c_ctxs[ctx].log[j].call
                   IN  IF n <= Len(c_results) THEN ~c_results[n].first
                       ELSE ~c_call.first

\* the grace timer has fired while a call was suspended in its write: its
\* "no more inputs" is the last thing written on the current context, which
\* the provider has not completed
C36_Witness ==
    /\ c_call # NoCall
    /\ c_call.timer_at_send = "sleeping"
    /\ c_timer = "done"
    /\ c_ctx # 0
    /\ ~c_ctxs[c_ctx].completed
    /\ c_ctxs[c_ctx].log[Len(c_ctxs[c_ctx].log)].kind = "no_more_inputs"

(***************************************************************************)
(* C37: is_ready stays false after terminate().                            *)
(***************************************************************************)
\* C37: terminate() sets _ended and clears is_ready, _ended is never
\* cleared, and once terminate() has been called is_ready does not become
\* true again: it is false in every later state, also when a connection
\* attempt that was being established completes afterwards.
C37_NotReadyAfterTerminate ==
    /\ [][Terminate => (ended' /\ ~is_ready')]_vars
    /\ [][ended => ended']_vars
    /\ [][(ended /\ ~is_ready) => ~is_ready']_vars

\* outside a connection attempt that is being established, is_ready stays
\* false after terminate()
C37_NotReadyUnlessConnecting ==
    [][(ended /\ ~is_ready /\ rl_pc # "connect") => ~is_ready']_vars

\* terminate() has been called while a connection attempt is being
\* established
C37_Witness ==
    /\ ended
    /\ ~rate_limited
    /\ ~is_ready
    /\ rl_pc = "connect"

(***************************************************************************)
(* C38: the probe decides on the first inbound message.                    *)
(***************************************************************************)
\* C38: the verdict of a probe that received a message is decided by the
\* first message alone: healthy if it is an event of another type than
\* "error", unhealthy if it is an "error" event, whatever the provider sent
\* after it; an "error" event that arrives second is not read.
C38_FirstMessageDecides ==
    \A i \in 1..Len(f_calls) :
        "sent" \in DOMAIN f_calls[i] =>
            /\ f_calls[i].outcome = Head(f_calls[i].sent)
            /\ Head(f_calls[i].sent) = "other_event"
                   => /\ f_calls[i].verdict = "True"
                      /\ f_calls[i].healthy
            /\ Head(f_calls[i].sent) = "error_event"
                   => f_calls[i].verdict = "False"

\* a probe was sent an event of another type and then an "error" event,
\* and has returned healthy
C38_Witness ==
    \E i \in 1..Len(f_calls) :
        /\ "sent" \in DOMAIN f_calls[i]
        /\ f_calls[i].sent = <<"other_event", "error_event">>
        /\ f_calls[i].verdict = "True"
        /\ f_calls[i].result = "SarvamTranscriber"

(***************************************************************************)
(* C39: every Cartesia frame sequence ends with one last frame.            *)
(***************************************************************************)
\* the frames yielded so far that carry is_last_chunk
C39_LastFrames == {k \in 1..Len(frames) : frames[k].is_last_chunk}

\* C39: a Cartesia frame sequence that has been consumed to its end has
\* yielded exactly one frame with is_last_chunk, as its last frame, also
\* when the context was already done when the consumption started.
C39_OneLastFrame ==
    (gen_synth = "cartesia" /\ gen_pc \in {"ended", "skipped", "raised"})
        => C39_LastFrames = {Len(frames)} /\ frames # <<>>

\* a generator that entered its receive loop yields exactly one last
\* frame, at its end, and none before
C39_OneLastFrameAfterReceive ==
    gen_synth = "cartesia" =>
        /\ gen_pc = "ended" => C39_LastFrames = {Len(frames)} /\ frames # <<>>
        /\ gen_pc \in {"start", "receive"} => C39_LastFrames = {}

\* the generator was started when the context was done and has returned
C39_Witness ==
    /\ gen_synth = "cartesia"
    /\ gen_pc = "skipped"
    /\ frames = <<>>
    /\ gen_sent = 1

\* the generator of a returned result was started after the provider had
\* completed the result's context, and has returned without a frame
C39_StartedOnDoneContext ==
    \E r \in 1..Len(c_gens) :
        /\ c_gens[r] = "skipped"
        /\ c_results[r].ctx = c_ctx
        /\ c_ctxs[c_ctx].completed

(***************************************************************************)
(* C40: the model and the language of the Deepgram fallback config.        *)
(***************************************************************************)
\* the places of the "-" in a language
C40_Dashes(lang) == {k \in 1..Len(lang) : lang[k] = "-"}

\* C40: the Deepgram fallback configuration has model "nova-2", and its
\* language is "hi" when the Sarvam language is unset or empty, the Sarvam
\* language itself when that has no "-", and otherwise the part of the
\* Sarvam language before its first "-".
C40_FallbackModelAndLanguage ==
    deepgram_config # NoConfig =>
        LET lang == sarvam_config.language
            dashes == C40_Dashes(lang)
        IN  /\ deepgram_config.model = "nova-2"
            /\ lang = NoLanguage => deepgram_config.language = <<"h", "i">>
            /\ (lang # NoLanguage /\ dashes = {})
                   => deepgram_config.language = lang
            /\ dashes # {} =>
                   \E k \in dashes :
                      /\ \A j \in dashes : k <= j
                      /\ deepgram_config.language = SubSeq(lang, 1, k - 1)

\* a fallback built for a language with a region suffix
C40_Witness ==
    /\ deepgram_config # NoConfig
    /\ sarvam_config.language = <<"h", "i", "-", "I", "N">>
    /\ deepgram_config.language = <<"h", "i">>
    /\ deepgram_config.model = "nova-2"

====
